---- MODULE Spec2Model ----
(***************************************************************************)
(* FloorPlan-Cleaner: the raster geometry core (flood fill, region split)  *)
(* and the editing session of MainWindow (rooms, units, split workflow).   *)
(*                                                                         *)
(* A pixel is a pair <<x, y>>; a boolean mask is the set of its true       *)
(* pixels; a uint8 image is a function from the pixels of the raster to    *)
(* 0..255.  None stands for Python's None.                                 *)
(***************************************************************************)
EXTENDS Integers, Sequences, FiniteSets, TLC

\* None for values that are functions, records or sequences
None == << >>

\* None for an optional integer (Room.unit_id, Room.split_from)
NoneId == -1

-----------------------------------------------------------------------------
(* Rasters                                                                 *)

Grid(w, h) == (0 .. w - 1) \X (0 .. h - 1)

InBounds(p, w, h) == p[1] >= 0 /\ p[1] < w /\ p[2] >= 0 /\ p[2] < h

\* a numpy array: the function f held as the table of its values
Array(f) == f @@ << >>

\* a boolean numpy array: the set m of its true pixels held as their list
BoolArray(m) == IF Cardinality(m) >= 0 THEN m ELSE {}

\* the four edge neighbours used by cv2.floodFill (default connectivity 4)
N4(p) ==
  { <<p[1] - 1, p[2]>>, <<p[1] + 1, p[2]>>, <<p[1], p[2] - 1>>, <<p[1], p[2] + 1>> }

\* the eight neighbours used by cv2.connectedComponents (default connectivity 8)
N8(p) ==
  { <<p[1] + dx, p[2] + dy>> : dx \in {-1, 0, 1}, dy \in {-1, 0, 1} } \ {p}

\* A built boundary raster: 0 inside the wall blocks, 255 elsewhere.  Walls
\* are given as rectangles <<x1, y1, x2, y2>> (inclusive).
InRect(p, r) == p[1] >= r[1] /\ p[1] <= r[3] /\ p[2] >= r[2] /\ p[2] <= r[4]

Raster(w, h, walls) ==
  [raster_w |-> w, raster_h |-> h,
   boundary_image |->
     [p \in Grid(w, h) |-> IF \E r \in walls : InRect(p, r) THEN 0 ELSE 255]]

-----------------------------------------------------------------------------
(* FloodFiller (flood_fill.py)                                             *)

MIN_AREA == 100

FILL_VALUE == 128

\* cv2.floodFill(fill_img, mask, seed, newVal) with zero loDiff/upDiff and
\* connectivity 4: the pixels joined to the seed through edge-adjacent pixels
\* of the seed's value.
RECURSIVE Grow(_, _, _, _, _, _)
Grow(img, w, h, val, region, frontier) ==
  IF frontier = {} THEN region
  ELSE LET next == { q \in UNION { N4(p) : p \in frontier } :
                       InBounds(q, w, h) /\ q \notin region /\ img[q] = val }
       IN  Grow(img, w, h, val, region \cup next, next)

\* the image after the fill; (h, w) is its shape
floodFill(img, w, h, seed, newVal) ==
  LET region == Grow(img, w, h, img[seed], {seed}, {seed})
  IN  [p \in Grid(w, h) |-> IF p \in region THEN newVal ELSE img[p]]

\* fill_img = self.boundary_image.copy(): the fill paints a private copy, the
\* canonical raster stays as it was
AfterFillShared(img, fill_img) == fill_img

AfterFill(img, fill_img) == img

\* room_mask = (fill_img == 128)
RoomMaskUnfilled(fill_img) == { p \in DOMAIN fill_img : fill_img[p] = 255 }

RoomMask(fill_img) == { p \in DOMAIN fill_img : fill_img[p] = FILL_VALUE }

\* area < 100 or area > total * 0.5
AreaRejectedStrict(area, total) == area <= MIN_AREA \/ 2 * area >= total

AreaRejected(area, total) == area < MIN_AREA \/ 2 * area > total

\* FloodFiller.fill_at: the outcome is a raised RuntimeError, None, or the
\* mask; image is self.boundary_image after the call
fill_at(f, px, py) ==
  IF f.boundary_image = None
    THEN [kind |-> "RuntimeError", mask |-> {}, image |-> f.boundary_image]
  ELSE IF px < 0 \/ px >= f.raster_w \/ py < 0 \/ py >= f.raster_h
    THEN [kind |-> "None", mask |-> {}, image |-> f.boundary_image]
  ELSE IF f.boundary_image[<<px, py>>] = 0
    THEN [kind |-> "None", mask |-> {}, image |-> f.boundary_image]
  ELSE LET fill_img  == floodFill(f.boundary_image, f.raster_w, f.raster_h, <<px, py>>, FILL_VALUE)
           room_mask == RoomMask(fill_img)
           area      == Cardinality(room_mask)
           total     == f.raster_w * f.raster_h
           image     == AfterFill(f.boundary_image, fill_img)
       IN  IF AreaRejected(area, total)
           THEN [kind |-> "None", mask |-> {}, image |-> image]
           ELSE [kind |-> "mask", mask |-> room_mask, image |-> image]

-----------------------------------------------------------------------------
(* split_mask (room_splitter.py)                                           *)

\* a line one pixel wide: the pixels on the segment p1-p2
LinePixelsThin(w, h, p1, p2) ==
  LET dx == p2[1] - p1[1]
      dy == p2[2] - p1[2]
      OnSegment(q) ==
        LET vx  == q[1] - p1[1]
            vy  == q[2] - p1[2]
            dot == vx * dx + vy * dy
        IN  vx * dy - vy * dx = 0 /\ dot >= 0 /\ dot <= dx * dx + dy * dy
  IN  { q \in Grid(w, h) : OnSegment(q) }

\* cv2.line(line_img, p1, p2, 255, thickness=3): the pixels within 1.5 of the
\* segment p1-p2 (a 3 pixel wide band with round ends), clipped to the image.
LinePixels(w, h, p1, p2) ==
  LET dx == p2[1] - p1[1]
      dy == p2[2] - p1[2]
      L  == dx * dx + dy * dy
      Near(q) ==
        LET vx  == q[1] - p1[1]
            vy  == q[2] - p1[2]
            ux  == q[1] - p2[1]
            uy  == q[2] - p2[2]
            dot == vx * dx + vy * dy
            crs == vx * dy - vy * dx
        IN  IF dot <= 0 THEN 4 * (vx * vx + vy * vy) <= 9
            ELSE IF dot >= L THEN 4 * (ux * ux + uy * uy) <= 9
            ELSE 4 * crs * crs <= 9 * L
  IN  { q \in Grid(w, h) : Near(q) }

\* the component of pixel p in the mask m under 8-connectivity
RECURSIVE Grow8(_, _, _)
Grow8(m, region, frontier) ==
  IF frontier = {} THEN region
  ELSE LET next == (UNION { N8(p) : p \in frontier } \cap m) \ region
       IN  Grow8(m, region \cup next, next)

\* raster scan order: row by row, left to right
ScanBefore(p, q) == p[2] < q[2] \/ (p[2] = q[2] /\ p[1] < q[1])

FirstPixel(m) == CHOOSE p \in m : \A q \in m : q = p \/ ScanBefore(p, q)

\* cv2.connectedComponents: the components in label order 1, 2, ... (a label
\* is given at the first pixel of the component met in scan order)
RECURSIVE connectedComponents(_)
connectedComponents(m) ==
  IF m = {} THEN << >>
  ELSE LET c == Grow8(m, {FirstPixel(m)}, {FirstPixel(m)})
       IN  <<c>> \o connectedComponents(m \ c)

\* component_sizes.sort(reverse=True) on (size, label_id): larger size first,
\* among equal sizes the larger label first.  The result lists the labels.
RECURSIVE SortedLabels(_, _)
SortedLabels(comps, todo) ==
  IF todo = {} THEN << >>
  ELSE LET best == CHOOSE i \in todo : \A j \in todo :
                     \/ Cardinality(comps[i]) > Cardinality(comps[j])
                     \/ (Cardinality(comps[i]) = Cardinality(comps[j]) /\ i >= j)
       IN  <<best>> \o SortedLabels(comps, todo \ {best})

\* cv2.dilate(m, np.ones((5, 5))): the pixels of the image within two rows and
\* two columns of a pixel of m
dilate5(w, h, m) ==
  { q \in Grid(w, h) : \E p \in m : p[1] - q[1] \in -2 .. 2 /\ p[2] - q[2] \in -2 .. 2 }

\* the loop over the fragments, components 3.. in sorted order
MergeFragmentsDropped(w, h, comps, order, i, half_a, half_b) ==
  [kind |-> "ok", half_a |-> half_a, half_b |-> half_b]

\* the loop with a fragment of equal overlap given to half B
RECURSIVE MergeFragmentsTiesToB(_, _, _, _, _, _, _)
MergeFragmentsTiesToB(w, h, comps, order, i, half_a, half_b) ==
  IF i > Len(order) THEN [kind |-> "ok", half_a |-> half_a, half_b |-> half_b]
  ELSE LET frag_mask == comps[order[i]]
           overlap_a == Cardinality(frag_mask \cap dilate5(w, h, half_a))
           overlap_b == Cardinality(frag_mask \cap dilate5(w, h, half_b))
       IN  IF overlap_a > overlap_b
           THEN MergeFragmentsTiesToB(w, h, comps, order, i + 1, half_a \cup frag_mask, half_b)
           ELSE MergeFragmentsTiesToB(w, h, comps, order, i + 1, half_a, half_b \cup frag_mask)

RECURSIVE MergeFragments(_, _, _, _, _, _, _)
MergeFragments(w, h, comps, order, i, half_a, half_b) ==
  IF i > Len(order) THEN [kind |-> "ok", half_a |-> half_a, half_b |-> half_b]
  ELSE LET frag_mask == comps[order[i]]
           overlap_a == Cardinality(frag_mask \cap dilate5(w, h, half_a))
           overlap_b == Cardinality(frag_mask \cap dilate5(w, h, half_b))
       IN  IF overlap_a >= overlap_b
           THEN MergeFragments(w, h, comps, order, i + 1, half_a \cup frag_mask, half_b)
           ELSE MergeFragments(w, h, comps, order, i + 1, half_a, half_b \cup frag_mask)

\* split_mask(mask, p1, p2) for a mask of shape (h, w)
split_mask(w, h, mask, p1, p2) ==
  LET line_img == LinePixels(w, h, p1, p2)
      cut      == mask \ line_img
      comps    == connectedComponents(cut)
      order    == SortedLabels(comps, 1 .. Len(comps))
  IN  IF Len(comps) < 2
      THEN [kind |-> "ValueError", half_a |-> {}, half_b |-> {}]
      ELSE MergeFragments(w, h, comps, order, 3, comps[order[1]], comps[order[2]])


-----------------------------------------------------------------------------
(* Coordinates (flood_fill.py)                                             *)

\* An SVG length is held as a whole number of halves of an SVG unit, a scale
\* as a fraction <<num, den>> of pixels per SVG unit.

\* int(x) for the quotient a / b, b > 0: the fraction is cut off towards zero
Trunc(a, b) == IF a >= 0 THEN a \div b ELSE -((-a) \div b)

\* int((x - viewbox[0]) * scale) for x and viewbox[0] in halves
ToPixel(x, origin, scale) == Trunc((x - origin) * scale[1], 2 * scale[2])

-----------------------------------------------------------------------------
(* MaskGenerator (mask_generator.py)                                       *)

CROP_MARGIN == 15

VOID == 0
FLOOR == 85
DOOR == 170
WINDOW == 255

OUT_SIZE == 120

Max(a, b) == IF a >= b THEN a ELSE b
Min(a, b) == IF a <= b THEN a ELSE b

MinOf(S) == CHOOSE a \in S : \A b \in S : a <= b
MaxOf(S) == CHOOSE a \in S : \A b \in S : a >= b

\* the crop region: the bounding box of the pixels, widened by the margin and
\* clipped to the raster of shape (img_h, img_w)
CropBox(img_w, img_h, pixels) ==
  [x_min |-> Max(0, MinOf({ p[1] : p \in pixels }) - CROP_MARGIN),
   y_min |-> Max(0, MinOf({ p[2] : p \in pixels }) - CROP_MARGIN),
   x_max |-> Min(img_w - 1, MaxOf({ p[1] : p \in pixels }) + CROP_MARGIN),
   y_max |-> Min(img_h - 1, MaxOf({ p[2] : p \in pixels }) + CROP_MARGIN)]

BoxW(box) == box.x_max - box.x_min + 1
BoxH(box) == box.y_max - box.y_min + 1

\* flood_mask[y_min:y_max + 1, x_min:x_max + 1], in the coordinates of the crop
Crop(mask, box) ==
  { <<p[1] - box.x_min, p[2] - box.y_min>> :
      p \in { q \in mask : q[1] \in box.x_min .. box.x_max /\ q[2] \in box.y_min .. box.y_max } }

\* cv2.dilate with np.ones((11, 11))
dilate11(w, h, m) ==
  { q \in Grid(w, h) : \E p \in m : p[1] - q[1] \in -5 .. 5 /\ p[2] - q[2] \in -5 .. 5 }

\* cv2.erode with np.ones((3, 3)): a pixel stays when its neighbours inside
\* the image are all set (outside the image nothing erodes)
erode3(w, h, m) ==
  { p \in m : \A q \in N8(p) : InBounds(q, w, h) => q \in m }

\* (dilated > 0) & (eroded == 0)
BoundaryZone(w, h, m) == dilate11(w, h, m) \ erode3(w, h, m)

\* result[pixels] = value
Paint(result, pixels, value) ==
  Array([p \in DOMAIN result |-> IF p \in pixels THEN value ELSE result[p]])

\* _element_pixel_bbox
element_pixel_bbox(filler, elem) ==
  <<ToPixel(elem.bbox[1], filler.viewbox[1], filler.scale),
    ToPixel(elem.bbox[2], filler.viewbox[2], filler.scale),
    Trunc(elem.bbox[3] * filler.scale[1], 2 * filler.scale[2]),
    Trunc(elem.bbox[4] * filler.scale[1], 2 * filler.scale[2])>>

\* the points of a path in the coordinates of the crop
PathPoints(filler, path, x_off, y_off) ==
  [i \in 1 .. Len(path) |->
     <<ToPixel(path[i][1], filler.viewbox[1], filler.scale) - x_off,
       ToPixel(path[i][2], filler.viewbox[2], filler.scale) - y_off>>]

\* cv2.polylines(elem_mask, [pts], isClosed=False, color=255, thickness=3)
polylines(w, h, pts) ==
  UNION { LinePixels(w, h, pts[i], pts[i + 1]) : i \in 1 .. Len(pts) - 1 }

\* elem_mask of one element: its paths of two points or more
ElemMask(filler, elem, x_off, y_off, w, h) ==
  UNION { polylines(w, h, PathPoints(filler, elem.paths[k], x_off, y_off)) :
            k \in { j \in 1 .. Len(elem.paths) : Len(elem.paths[j]) >= 2 } }

\* _overlay_elements, from element i on
RECURSIVE overlay_elements(_, _, _, _, _, _, _, _, _, _)
overlay_elements(filler, result, boundary_zone, elements, i, x_off, y_off, w, h, value) ==
  IF i > Len(elements) THEN result
  ELSE LET b    == element_pixel_bbox(filler, elements[i])
           skip == \/ b[1] > x_off + w
                   \/ b[1] + b[3] < x_off
                   \/ b[2] > y_off + h
                   \/ b[2] + b[4] < y_off
           overlap == ElemMask(filler, elements[i], x_off, y_off, w, h) \cap boundary_zone
       IN  overlay_elements(filler,
                            IF skip THEN result ELSE Paint(result, overlap, value),
                            boundary_zone, elements, i + 1, x_off, y_off, w, h, value)

\* door_pixels: t = dot / line_len_sq, clipped to [0, 1], lies in
\* [corner_frac, 1 - corner_frac] with corner_frac = 0.175
DoorSpan(dot, line_len_sq) ==
  /\ 1000 * dot >= 175 * line_len_sq
  /\ 1000 * dot <= 825 * line_len_sq

\* _overlay_split_boundary
overlay_split_boundary(result, crop_mask, split_line_px, x_off, y_off, w, h) ==
  LET p1 == <<split_line_px[1][1] - x_off, split_line_px[1][2] - y_off>>
      p2 == <<split_line_px[2][1] - x_off, split_line_px[2][2] - y_off>>
      split_boundary == LinePixels(w, h, p1, p2) \cap BoundaryZone(w, h, crop_mask)
      dx == p2[1] - p1[1]
      dy == p2[2] - p1[2]
      line_len_sq == dx * dx + dy * dy
      door_pixels == { q \in split_boundary :
                         DoorSpan((q[1] - p1[1]) * dx + (q[2] - p1[2]) * dy, line_len_sq) }
  IN  IF split_boundary = {} \/ line_len_sq = 0 THEN result
      ELSE Paint(result, door_pixels, DOOR)

\* the raster of generate_mask before it is padded and resized
room_raster(g, room) ==
  LET box  == CropBox(g.filler.raster_w, g.filler.raster_h, room.flood_mask)
      w    == BoxW(box)
      h    == BoxH(box)
      crop_mask == Crop(room.flood_mask, box)
      floor  == Array([p \in Grid(w, h) |-> IF p \in crop_mask THEN FLOOR ELSE VOID])
      zone   == BoundaryZone(w, h, crop_mask)
      doored == overlay_elements(g.filler, floor, zone, g.doors, 1,
                                 box.x_min, box.y_min, w, h, DOOR)
      windowed == overlay_elements(g.filler, doored, zone, g.windows, 1,
                                   box.x_min, box.y_min, w, h, WINDOW)
  IN  [w |-> w, h |-> h,
       px |-> IF room.split_line_px # None
              THEN overlay_split_boundary(windowed, crop_mask, room.split_line_px,
                                          box.x_min, box.y_min, w, h)
              ELSE windowed]

\* _pad_to_square
pad_to_square(img) ==
  LET size  == Max(img.h, img.w)
      y_off == (size - img.h) \div 2
      x_off == (size - img.w) \div 2
  IN  [w |-> size, h |-> size,
       px |-> Array([p \in Grid(size, size) |->
                 IF p[1] - x_off \in 0 .. img.w - 1 /\ p[2] - y_off \in 0 .. img.h - 1
                 THEN img.px[<<p[1] - x_off, p[2] - y_off>>]
                 ELSE VOID])]

\* a resize that averages the two source pixels around each sample
resizeAveraging(img) ==
  [w |-> OUT_SIZE, h |-> OUT_SIZE,
   px |-> [p \in Grid(OUT_SIZE, OUT_SIZE) |->
             LET x0 == Min((p[1] * img.w) \div OUT_SIZE, img.w - 1)
                 y0 == Min((p[2] * img.h) \div OUT_SIZE, img.h - 1)
                 x1 == Min(x0 + 1, img.w - 1)
             IN  (img.px[<<x0, y0>>] + img.px[<<x1, y0>>]) \div 2]]

\* cv2.resize(result, (120, 120), interpolation=cv2.INTER_NEAREST): the pixel
\* (x, y) takes the source pixel (floor(x * w / 120), floor(y * h / 120))
resize(img) ==
  [w |-> OUT_SIZE, h |-> OUT_SIZE,
   px |-> [p \in Grid(OUT_SIZE, OUT_SIZE) |->
             img.px[<<Min((p[1] * img.w) \div OUT_SIZE, img.w - 1),
                      Min((p[2] * img.h) \div OUT_SIZE, img.h - 1)>>]]]

\* generate_mask(room)
generate_mask(g, room) == resize(pad_to_square(room_raster(g, room)))

\* the loop over the split rooms in generate_combined_mask, from room i on
RECURSIVE overlay_split_boundaries(_, _, _, _, _, _)
overlay_split_boundaries(result, rs, i, box, w, h) ==
  IF i > Len(rs) THEN result
  ELSE overlay_split_boundaries(
         IF rs[i].split_line_px # None
         THEN overlay_split_boundary(result, Crop(rs[i].flood_mask, box),
                                     rs[i].split_line_px, box.x_min, box.y_min, w, h)
         ELSE result,
         rs, i + 1, box, w, h)

\* the raster of generate_combined_mask before it is padded and resized
combined_raster(g, rs) ==
  LET all  == UNION { rs[i].flood_mask : i \in 1 .. Len(rs) }
      box  == CropBox(g.filler.raster_w, g.filler.raster_h, all)
      w    == BoxW(box)
      h    == BoxH(box)
      combined_mask == Crop(all, box)
      floor  == Array([p \in Grid(w, h) |-> IF p \in combined_mask THEN FLOOR ELSE VOID])
      zone   == BoundaryZone(w, h, combined_mask)
      doored == overlay_elements(g.filler, floor, zone, g.doors, 1,
                                 box.x_min, box.y_min, w, h, DOOR)
      windowed == overlay_elements(g.filler, doored, zone, g.windows, 1,
                                   box.x_min, box.y_min, w, h, WINDOW)
  IN  [w |-> w, h |-> h,
       px |-> overlay_split_boundaries(windowed, rs, 1, box, w, h)]

\* generate_combined_mask(rooms)
generate_combined_mask(g, rs) == resize(pad_to_square(combined_raster(g, rs)))

-----------------------------------------------------------------------------
(* State                                                                   *)

VARIABLES
  \* MainWindow (app.py)
  filler,                 \* _filler: None or the FloodFiller
  rooms,                  \* _rooms: sequence of Room records
  units,                  \* _units: sequence of ApartmentUnit records
  unit_counter,           \* _unit_counter
  room_counter,           \* _room_counter
  split_target_room,      \* _split_target_room: None or the Room
  split_contour,          \* _split_contour: None or the contour
  split_half_a,           \* _split_half_a: None or <<mask>>
  split_half_b,           \* _split_half_b: None or <<mask>>
  split_p1,               \* _split_p1: None or a pixel
  split_p2,               \* _split_p2: None or a pixel
  room_list,              \* _room_list: the room ids of its items, in order
  current_row,            \* _room_list's current item: its row (1-based), 0 if none
  split_toolbar_visible,  \* _split_toolbar.isVisible()
  split_confirm_enabled,  \* _split_confirm_btn.isEnabled()
  \* FloorPlanCanvas (canvas.py)
  base_pixmap_item,       \* _base_pixmap_item is not None
  c_split_mode,           \* _split_mode
  c_split_state,          \* _split_state
  c_split_p1,             \* _split_p1
  c_split_p2,             \* _split_p2
  c_split_contour,        \* _split_contour
  c_split_room_id,        \* _split_room_id
  \* history
  lastOp,                 \* the handler that ran last, and how it ended
  issued_room_ids,        \* the room ids issued since the last reset, in order
  issued_unit_ids,        \* the unit ids issued since the last reset, in order
  \* direct calls of the geometry functions
  call,                   \* None, or the call made and its outcome
  fills,                  \* the successful fill_at calls so far: [seed, mask]
  test_mask               \* the mask handed to split_mask: [w, h, mask]

windowVars == <<rooms, units, unit_counter, room_counter, split_target_room,
                split_contour, split_half_a, split_half_b, split_p1, split_p2,
                room_list, current_row, split_toolbar_visible, split_confirm_enabled>>

appVars == <<filler, windowVars>>

canvasVars == <<base_pixmap_item, c_split_mode, c_split_state, c_split_p1,
                c_split_p2, c_split_contour, c_split_room_id>>

histVars == <<lastOp, issued_room_ids, issued_unit_ids>>

callVars == <<call, fills, test_mask>>

vars == <<appVars, canvasVars, histVars, callVars>>


-----------------------------------------------------------------------------
(* Initial state: MainWindow.__init__ and FloorPlanCanvas.__init__         *)

WindowInit ==
  /\ rooms = << >>
  /\ units = << >>
  /\ unit_counter = 1
  /\ room_counter = 0
  /\ split_target_room = None
  /\ split_contour = None
  /\ split_half_a = None
  /\ split_half_b = None
  /\ split_p1 = None
  /\ split_p2 = None
  /\ room_list = << >>
  /\ current_row = 0
  /\ split_toolbar_visible = FALSE
  /\ split_confirm_enabled = FALSE
  /\ base_pixmap_item = FALSE
  /\ c_split_mode = FALSE
  /\ c_split_state = "IDLE"
  /\ c_split_p1 = None
  /\ c_split_p2 = None
  /\ c_split_contour = None
  /\ c_split_room_id = NoneId
  /\ lastOp = "init"
  /\ issued_room_ids = << >>
  /\ issued_unit_ids = << >>

SessionInit ==
  /\ filler = None
  /\ WindowInit

NoCalls ==
  /\ call = None
  /\ fills = << >>
  /\ test_mask = None

-----------------------------------------------------------------------------
(* Boundary rasters as build_boundary_raster leaves them: every boundary    *)
(* block is at least as large as the 5x5 element of the closing of step 4. *)

\* two rooms of 10x10 = 100 pixels on a 25x10 raster
RasterTwoRooms == Raster(25, 10, { <<10, 0, 14, 9>> })

\* a room of 100 pixels, exactly half of a 20x10 raster, and a pocket of 50
RasterHalf == Raster(20, 10, { <<10, 0, 14, 9>> })

\* the wall between the two rooms has a one pixel gap: one region of 205
RasterGap == Raster(25, 10, { <<10, 0, 14, 3>>, <<10, 5, 14, 9>> })

\* three rooms of 100 pixels on a 40x10 raster
RasterThreeRooms == Raster(40, 10, { <<10, 0, 14, 9>>, <<25, 0, 29, 9>> })

BuiltRasters == { RasterTwoRooms, RasterHalf, RasterGap, RasterThreeRooms }

\* FloodFiller.__init__: the raster size is known, the raster is not built
FloodFiller(w, h) == [raster_w |-> w, raster_h |-> h, boundary_image |-> None]

-----------------------------------------------------------------------------
(* Direct calls of FloodFiller                                             *)

MaxFills == 2

\* seeds tried by single calls: six rows of the widest raster and its margin
Seeds == (-1 .. 40) \X { -1, 0, 4, 5, 9, 10 }

\* seeds tried by sequences of calls
SeqSeeds == { 0, 12, 15, 39 } \X { 0, 4, 9 }

FillInit ==
  /\ filler \in { FloodFiller(25, 10), FloodFiller(20, 10), FloodFiller(40, 10) }
  /\ WindowInit
  /\ NoCalls

BuildBoundaryRaster ==
  /\ filler.boundary_image = None
  /\ call = None
  /\ \E r \in BuiltRasters :
       /\ r.raster_w = filler.raster_w
       /\ r.raster_h = filler.raster_h
       /\ filler' = r
  /\ UNCHANGED windowVars
  /\ UNCHANGED <<canvasVars, histVars, callVars>>

\* one call fill_at(px, py), and its outcome
FillAt ==
  /\ call = None
  /\ \E s \in Seeds :
       LET res == fill_at(filler, s[1], s[2])
       IN  /\ call' = [fn |-> "fill_at", seed |-> s, result |-> res]
           /\ filler' = [filler EXCEPT !.boundary_image = res.image]
  /\ UNCHANGED <<windowVars, canvasVars, histVars, fills, test_mask>>

\* the caller takes the outcome
Return ==
  /\ call # None
  /\ call' = None
  /\ UNCHANGED <<appVars, canvasVars, histVars, fills, test_mask>>

\* one more call in a sequence of calls; the successful ones are kept
FillNext ==
  /\ filler.boundary_image # None
  /\ Len(fills) < MaxFills
  /\ \E s \in SeqSeeds :
       LET res == fill_at(filler, s[1], s[2])
       IN  /\ res.kind = "mask"
           /\ fills' = Append(fills, [seed |-> s, mask |-> res.mask])
           /\ filler' = [filler EXCEPT !.boundary_image = res.image]
  /\ UNCHANGED <<windowVars, canvasVars, histVars, call, test_mask>>

FillNextStep == BuildBoundaryRaster \/ FillAt \/ Return

FillSpec == FillInit /\ [][FillNextStep]_vars

FillSeqNextStep == BuildBoundaryRaster \/ FillNext

FillSeqSpec == FillInit /\ [][FillSeqNextStep]_vars

-----------------------------------------------------------------------------
(* Direct calls of split_mask                                              *)

\* masks of shape (5, 7)
MaskFull == Grid(7, 5)

MaskEmpty == {}

\* two separate pieces
MaskTwoBlobs == { p \in Grid(7, 5) : p[1] <= 1 \/ p[1] >= 5 }

\* a spine along the top row with four teeth hanging from it
MaskComb == { p \in Grid(7, 5) : p[2] = 0 \/ p[1] \in { 0, 2, 4, 6 } }

\* the outer ring of the raster
MaskRing == { p \in Grid(7, 5) : p[1] \in { 0, 6 } \/ p[2] \in { 0, 4 } }

\* two squares that touch at a corner
MaskCorner == { p \in Grid(7, 5) : (p[1] <= 2 /\ p[2] <= 1) \/ (p[1] >= 3 /\ p[2] >= 2) }

TestMasks ==
  { [w |-> 7, h |-> 5, mask |-> m] :
      m \in { MaskFull, MaskEmpty, MaskTwoBlobs, MaskComb, MaskRing, MaskCorner } }

\* the end points tried: the pixels of the raster and four points outside it
SplitPoints == Grid(7, 5) \cup { <<-2, 2>>, <<8, 2>>, <<3, -2>>, <<3, 6>> }

SplitInit ==
  /\ filler = None
  /\ WindowInit
  /\ call = None
  /\ fills = << >>
  /\ test_mask \in TestMasks

\* one call split_mask(mask, p1, p2), and its outcome
SplitMask ==
  /\ call = None
  /\ \E p1, p2 \in SplitPoints :
       call' = [fn |-> "split_mask", p1 |-> p1, p2 |-> p2,
                result |-> split_mask(test_mask.w, test_mask.h, test_mask.mask, p1, p2)]
  /\ UNCHANGED <<appVars, canvasVars, histVars, fills, test_mask>>

SplitNextStep == SplitMask \/ Return

SplitSpec == SplitInit /\ [][SplitNextStep]_vars

\* square rooms: the mask true on (n, n)..(3n, 3n) of a raster of shape
\* (4n, 4n); n = 50 is the 101 x 101 square on (50, 50)..(150, 150)
MaxSquare == 16

SquareMask(n) ==
  [w |-> 4 * n, h |-> 4 * n,
   mask |-> { p \in Grid(4 * n, 4 * n) : p[1] \in n .. 3 * n /\ p[2] \in n .. 3 * n }]

SquareMasks == { SquareMask(n) : n \in (2 .. MaxSquare) \cup {50} }

\* lines across a square from side to side, through its middle column or
\* row or the one next to it
MidLines(t) ==
  LET n == t.w \div 4
  IN  { << <<2 * n + d, n>>, <<2 * n + d, 3 * n>> >> : d \in -1 .. 1 }
        \cup { << <<n, 2 * n + d>>, <<3 * n, 2 * n + d>> >> : d \in -1 .. 1 }

SquareInit ==
  /\ SessionInit
  /\ call = None
  /\ fills = << >>
  /\ test_mask \in SquareMasks

\* one call split_mask(mask, p1, p2) on a square, and its outcome
SplitSquare ==
  /\ call = None
  /\ \E l \in MidLines(test_mask) :
       call' = [fn |-> "split_mask", p1 |-> l[1], p2 |-> l[2],
                result |-> split_mask(test_mask.w, test_mask.h, test_mask.mask, l[1], l[2])]
  /\ UNCHANGED <<appVars, canvasVars, histVars, fills, test_mask>>

SquareNextStep == SplitSquare \/ Return

SquareSpec == SquareInit /\ [][SquareNextStep]_vars

-----------------------------------------------------------------------------
(* Contours (room_splitter.py)                                             *)

\* the eight neighbour offsets in counter-clockwise order on the screen (y
\* grows downwards): W, SW, S, SE, E, NE, N, NW
Around == << <<-1, 0>>, <<-1, 1>>, <<0, 1>>, <<1, 1>>, <<1, 0>>, <<1, -1>>, <<0, -1>>, <<-1, -1>> >>

Step(p, k) == <<p[1] + Around[k][1], p[2] + Around[k][2]>>

\* the index in Around of the offset from p to its neighbour q
DirOf(p, q) == CHOOSE k \in 1 .. 8 : Step(p, k) = q

\* the first pixel of the mask met around p, looking counter-clockwise from
\* the direction after k; 0 if p has no neighbour in the mask
NextAround(mask, p, k) ==
  LET hits == { n \in 1 .. 8 : Step(p, ((k + n - 1) % 8) + 1) \in mask }
  IN  IF hits = {} THEN 0
      ELSE ((k + (CHOOSE n \in hits : \A m \in hits : n <= m) - 1) % 8) + 1

\* border following of cv2.findContours: from the pixel cur, reached from
\* prev, to the next border pixel, until the walk is about to repeat its
\* first move
RECURSIVE Follow(_, _, _, _, _, _)
Follow(mask, start, second, prev, cur, acc) ==
  LET k   == NextAround(mask, cur, DirOf(cur, prev))
      nxt == Step(cur, k)
  IN  IF cur = start /\ nxt = second /\ Len(acc) > 0 THEN acc
      ELSE Follow(mask, start, second, cur, nxt, Append(acc, cur))

\* mask_to_contour for a mask in one piece: the outer border pixels in the
\* order of cv2.findContours (RETR_EXTERNAL, CHAIN_APPROX_NONE), which starts
\* at the first pixel in scan order and first walks down its left side
mask_to_contour(mask) ==
  LET start == FirstPixel(mask)
      k0    == NextAround(mask, start, 1)
  IN  IF k0 = 0 THEN <<start>>
      ELSE Follow(mask, start, Step(start, k0), Step(start, 1), start, << >>)

SqDist(p, q) == (p[1] - q[1]) * (p[1] - q[1]) + (p[2] - q[2]) * (p[2] - q[2])

\* the last vertex at the least distance
snap_to_contour_last(point, contour) ==
  LET idx == CHOOSE i \in 1 .. Len(contour) :
               \A j \in 1 .. Len(contour) :
                 \/ SqDist(contour[i], point) < SqDist(contour[j], point)
                 \/ (SqDist(contour[i], point) = SqDist(contour[j], point) /\ i >= j)
  IN  contour[idx]

\* snap_to_contour: np.argmin gives the first vertex at the least distance
snap_to_contour(point, contour) ==
  LET idx == CHOOSE i \in 1 .. Len(contour) :
               \A j \in 1 .. Len(contour) :
                 \/ SqDist(contour[i], point) < SqDist(contour[j], point)
                 \/ (SqDist(contour[i], point) = SqDist(contour[j], point) /\ i <= j)
  IN  contour[idx]

-----------------------------------------------------------------------------
(* Boundary polygon of a room (export.py)                                  *)

\* Contour simplification epsilon in pixels
CONTOUR_EPSILON_PX == 3

Abs(a) == IF a >= 0 THEN a ELSE -a

\* the point at index i (from 0, taken around the closed contour c)
At(c, i) == c[(i % Len(c)) + 1]

\* cv2.approxPolyDP, stage 1: the offset j in 1 .. count - 1 of the first point
\* farthest from the point at index s, or prev when no point is away from it
FarOffset(c, s, prev) ==
  LET d(j) == SqDist(At(c, s + j), At(c, s))
      js   == 1 .. Len(c) - 1
  IN  IF \A j \in js : d(j) = 0 THEN prev
      ELSE CHOOSE j \in js :
             \A k \in js : d(k) < d(j) \/ (d(k) = d(j) /\ j <= k)

\* stage 1, the init_iters = 3 rounds: the start index, the offset of the
\* farthest point from it, and whether that point lies within eps
FarthestPair(c, eps) ==
  LET s1 == 0
      o1 == FarOffset(c, s1, 0)
      s2 == (s1 + o1) % Len(c)
      o2 == FarOffset(c, s2, o1)
      s3 == (s2 + o2) % Len(c)
      o3 == FarOffset(c, s3, o2)
  IN  [start  |-> s3,
       far    |-> (o3 + s3) % Len(c),
       le_eps |-> \A j \in 1 .. Len(c) - 1 : SqDist(At(c, s3 + j), At(c, s3)) <= eps * eps]

\* the indices strictly between a and b, going round the contour from a
Between(c, a, b) ==
  { (a + j) % Len(c) : j \in 1 .. ((b - a + Len(c)) % Len(c)) - 1 }

\* the distance measure of stage 3: the cross product of (pt - start) with
\* (end - start)
Cross(pt, start, end) ==
  Abs((pt[2] - start[2]) * (end[1] - start[1]) - (pt[1] - start[1]) * (end[2] - start[2]))

\* a stage 3 that writes both ends of each accepted slice
WriteSliceBothEnds(c, eps, stack, dst) ==
  dst \o << At(c, stack[Len(stack)][1]), At(c, stack[Len(stack)][2]) >>

\* stage 3, the accepted slice on top of the stack: its start point is written
WriteSlice(c, eps, stack, dst) == dst \o << At(c, stack[Len(stack)][1]) >>

\* stage 3: the slices on the stack are split at their farthest point until
\* every point of a slice lies within eps of its chord
RECURSIVE approxSlices(_, _, _, _)
approxSlices(c, eps, stack, dst) ==
  IF stack = << >> THEN dst
  ELSE LET slice == stack[Len(stack)]
           rest  == SubSeq(stack, 1, Len(stack) - 1)
           a     == slice[1]
           b     == slice[2]
           inner == Between(c, a, b)
           dist(i) == Cross(At(c, i), At(c, a), At(c, b))
           off(i)  == (i - a + Len(c)) % Len(c)
           m == CHOOSE i \in inner :
                  \A k \in inner : dist(k) < dist(i) \/ (dist(k) = dist(i) /\ off(i) <= off(k))
           le_eps == \/ inner = {}
                     \/ dist(m) * dist(m) <= eps * eps * SqDist(At(c, a), At(c, b))
       IN  IF le_eps
           THEN approxSlices(c, eps, rest, WriteSlice(c, eps, stack, dst))
           ELSE approxSlices(c, eps, rest \o << <<m, b>>, <<a, m>> >>, dst)

\* stage 4, done in place on dst: a point on an [almost] straight line between
\* its neighbours is removed
RECURSIVE cleanUp(_, _, _, _, _, _, _, _, _)
cleanUp(dst, eps, count, new_count, i, pos, wpos, start_pt, pt) ==
  IF ~(i < count /\ new_count > 2) THEN SubSeq(dst, 1, new_count)
  ELSE LET end_pt == dst[pos + 1]
           pos1   == IF pos + 1 >= count THEN 0 ELSE pos + 1
           wpos1  == IF wpos + 1 >= count THEN 0 ELSE wpos + 1
           dx     == end_pt[1] - start_pt[1]
           dy     == end_pt[2] - start_pt[2]
           dist   == Abs((pt[1] - start_pt[1]) * dy - (pt[2] - start_pt[2]) * dx)
           successive_inner_product ==
             (pt[1] - start_pt[1]) * (end_pt[1] - pt[1])
               + (pt[2] - start_pt[2]) * (end_pt[2] - pt[2])
       IN  IF /\ 2 * dist * dist <= eps * eps * (dx * dx + dy * dy)
              /\ dx # 0
              /\ dy # 0
              /\ successive_inner_product >= 0
           THEN LET dst1 == [dst EXCEPT ![wpos + 1] = end_pt]
                IN  cleanUp(dst1, eps, count, new_count - 1, i + 2,
                            IF pos1 + 1 >= count THEN 0 ELSE pos1 + 1,
                            wpos1, end_pt, dst1[pos1 + 1])
           ELSE cleanUp([dst EXCEPT ![wpos + 1] = pt], eps, count, new_count, i + 1,
                        pos1, wpos1, pt, end_pt)

\* cv2.approxPolyDP(contour, eps, closed=True)
approxPolyDP(c, eps) ==
  LET far == FarthestPair(c, eps)
      dst == IF far.le_eps THEN << At(c, far.start) >>
             ELSE approxSlices(c, eps, << <<far.far, far.start>>, <<far.start, far.far>> >>, << >>)
      count == Len(dst)
  IN  cleanUp(dst, eps, count, count, 0, IF count > 1 THEN 1 ELSE 0, 0,
              dst[count], dst[1])

\* _extract_boundary_meters up to the simplified contour: one approximation
\* of the contour of the mask at the fixed tolerance
simplified_contour(mask) == approxPolyDP(mask_to_contour(mask), CONTOUR_EPSILON_PX)

-----------------------------------------------------------------------------
(* Floating-point coordinates (flood_fill.py)                              *)

\* A float is held as <<m, e>>, the number m * 2^e, with a mantissa m of at
\* most MantissaBits bits; every operation rounds its exact result to the
\* nearest such number, ties to the even mantissa, as IEEE 754 does with the
\* 53 bits of a Python float.
MantissaBits == 8

\* the float x as the fraction <<n, d>>, d a power of two
Frac(x) == IF x[2] >= 0 THEN <<x[1] * 2^x[2], 1>> ELSE <<x[1], 2^(-x[2])>>

\* the quotient n / d, d > 0, rounded to a whole number, ties to even
RoundHalfEven(n, d) ==
  LET q == n \div d
      r == n % d
  IN  IF 2 * r > d \/ (2 * r = d /\ q % 2 = 1) THEN q + 1 ELSE q

\* the exponent of the float nearest to n / d, for n > 0 and d > 0
RECURSIVE ExponentOf(_, _)
ExponentOf(n, d) ==
  IF n >= 2^MantissaBits * d THEN ExponentOf(n, 2 * d) + 1
  ELSE IF n < 2^(MantissaBits - 1) * d THEN ExponentOf(2 * n, d) - 1
  ELSE 0

\* the float nearest to the fraction n / d, d > 0
Round(n, d) ==
  IF n = 0 THEN <<0, 0>>
  ELSE LET e == ExponentOf(Abs(n), d)
           m == IF e >= 0 THEN RoundHalfEven(Abs(n), d * 2^e)
                ELSE RoundHalfEven(Abs(n) * 2^(-e), d)
       IN  <<IF n < 0 THEN -m ELSE m, e>>

\* x + y, x - y and x * y of floats
fadd(x, y) ==
  LET d == Max(Frac(x)[2], Frac(y)[2])
  IN  Round(Frac(x)[1] * (d \div Frac(x)[2]) + Frac(y)[1] * (d \div Frac(y)[2]), d)

fsub(x, y) == fadd(x, <<-y[1], y[2]>>)

fmul(x, y) == Round(Frac(x)[1] * Frac(y)[1], Frac(x)[2] * Frac(y)[2])

\* a quotient taken as the product
fdivAsProduct(x, y) == Round(Frac(x)[1] * Frac(y)[1], Frac(x)[2] * Frac(y)[2])

\* x / y of floats, y > 0
fdiv(x, y) == Round(Frac(x)[1] * Frac(y)[2], Frac(x)[2] * Frac(y)[1])

\* int(x) of a float: the fraction is cut off towards zero
int(x) == Trunc(Frac(x)[1], Frac(x)[2])

\* float(n) of an int below 2^MantissaBits
float(n) == <<n, 0>>

\* FloodFiller.pixel_to_svg
pixel_to_svg(f, px, py) ==
  << fadd(fdiv(float(px), f.scale), f.viewbox[1]),
     fadd(fdiv(float(py), f.scale), f.viewbox[2]) >>

\* FloodFiller.svg_to_pixel
svg_to_pixel(f, sx, sy) ==
  << int(fmul(fsub(sx, f.viewbox[1]), f.scale)),
     int(fmul(fsub(sy, f.viewbox[2]), f.scale)) >>

-----------------------------------------------------------------------------
(* SvgParser (svg_parser.py)                                               *)

SVG_NS == "http://www.w3.org/2000/svg"

IFC_TYPES_OF_INTEREST ==
  { "IfcWall", "IfcWallStandardCase", "IfcDoor", "IfcWindow",
    "IfcSlab", "IfcColumn", "IfcSpace" }

\* A node of the document tree is a record: its tag without the namespace, the
\* namespace, the words of its class attribute, its id attribute, the tokens
\* of its d attribute and its child nodes.  A token of path data is a command
\* letter or a number: a record with the letter in c, "" for a number, and the
\* number in n.

PathCommands == {"M", "m", "L", "l", "Z", "z"}

Cmd(c) == [c |-> c, n |-> 0]

Num(n) == [c |-> "", n |-> n]

\* parse_path_d, the inner loop: the pairs of numbers that follow the command
\* cmd, from token i on; the numbers of the path data come in pairs
RECURSIVE PathPairs(_, _, _, _, _)
\* parse_path_d, the outer loop, from token i on
RECURSIVE PathTokens(_, _, _, _)
PathPairs(tokens, i, cmd, current, coords) ==
  IF i <= Len(tokens) /\ tokens[i].c \notin PathCommands
  THEN LET x == tokens[i].n + (IF cmd \in {"m", "l"} THEN current[1] ELSE 0)
           y == tokens[i + 1].n + (IF cmd \in {"m", "l"} THEN current[2] ELSE 0)
       IN  PathPairs(tokens, i + 2,
                     IF cmd = "M" THEN "L" ELSE IF cmd = "m" THEN "l" ELSE cmd,
                     <<x, y>>, Append(coords, <<x, y>>))
  ELSE PathTokens(tokens, i, current, coords)

PathTokens(tokens, i, current, coords) ==
  IF i > Len(tokens) THEN coords
  ELSE IF tokens[i].c \in {"M", "m", "L", "l"}
       THEN PathPairs(tokens, i + 1, tokens[i].c, current, coords)
       ELSE PathTokens(tokens, i + 1, current, coords)

\* parse_path_d(d)
parse_path_d(d) == PathTokens(d, 1, <<0, 0>>, << >>)

\* compute_bbox(all_coords)
compute_bbox(all_coords) ==
  LET xs == { all_coords[i][1] : i \in 1 .. Len(all_coords) }
      ys == { all_coords[i][2] : i \in 1 .. Len(all_coords) }
  IN  <<MinOf(xs), MinOf(ys), MaxOf(xs) - MinOf(xs), MaxOf(ys) - MinOf(ys)>>

\* elem.iter(tag): the node and the nodes below it, in document order
RECURSIVE iter(_)
RECURSIVE iterAll(_, _)
iter(node) == <<node>> \o iterAll(node.children, 1)

iterAll(nodes, i) ==
  IF i > Len(nodes) THEN << >> ELSE iter(nodes[i]) \o iterAll(nodes, i + 1)

\* the coordinate lists of the SVG path nodes in and below elem whose d is not
\* empty and gives at least one coordinate
ElementPaths(elem) ==
  LET found  == SelectSeq(iter(elem),
                          LAMBDA n : n.tag = "path" /\ n.ns = SVG_NS /\ n.d # << >>)
      parsed == [k \in 1 .. Len(found) |-> parse_path_d(found[k].d)]
  IN  SelectSeq(parsed, LAMBDA coords : coords # << >>)

RECURSIVE Concat(_, _)
Concat(seqs, i) == IF i > Len(seqs) THEN << >> ELSE seqs[i] \o Concat(seqs, i + 1)

\* the classes that are a type of interest, in their order: the first one is
\* the type of the group, and there is no type when there is none
IfcTypesOf(classes) == SelectSeq(classes, LAMBDA c : c \in IFC_TYPES_OF_INTEREST)

\* the first class that starts with "material-", "" when there is none
MaterialOf(classes) ==
  LET hits == SelectSeq(classes, LAMBDA c : c \in {"material-brick", "material-glass"})
  IN  IF hits = << >> THEN "" ELSE hits[1]

\* an element appended also when its group gives no coordinate
parse_ifc_element_always(elements, elem, ifc_type, classes) ==
  Append(elements, [uuid |-> elem.id, ifc_type |-> ifc_type, paths |-> ElementPaths(elem)])

\* _parse_ifc_element: self.elements afterwards
parse_ifc_element(elements, elem, ifc_type, classes) ==
  LET paths      == ElementPaths(elem)
      all_coords == Concat(paths, 1)
  IN  IF all_coords = << >> THEN elements
      ELSE Append(elements,
                  [uuid     |-> elem.id,
                   ifc_type |-> ifc_type,
                   material |-> MaterialOf(classes),
                   layer    |-> IF \E k \in 1 .. Len(classes) : classes[k] = "projection"
                                THEN "projection"
                                ELSE IF \E k \in 1 .. Len(classes) : classes[k] = "cut"
                                THEN "cut" ELSE "unknown",
                   paths    |-> paths,
                   bbox     |-> compute_bbox(all_coords)])

\* _parse_group(parent), from the child i of parent on: self.elements afterwards
RECURSIVE parse_group(_, _, _)
parse_group(elements, parent, i) ==
  IF i > Len(parent.children) THEN elements
  ELSE LET elem     == parent.children[i]
           types    == IfcTypesOf(elem.class)
           after    == IF elem.tag # "g" THEN elements
                       ELSE IF types # << >>
                       THEN parse_ifc_element(elements, elem, types[1], elem.class)
                       ELSE parse_group(elements, elem, 1)
       IN  parse_group(after, parent, i + 1)

-----------------------------------------------------------------------------
(* center_svg (preprocess.py)                                              *)

\* The text of an SVG file is a record: its viewBox attribute (has_viewBox and
\* the words of the value), the width and height attributes in mm (<< >> when
\* absent), whether the text holds "</defs>", the primitives before that tag
\* (head) and after it (body).  An attribute value or a word is a token as in
\* path data: a number, or a text that is no number.  Lengths are held in
\* hundredths of a unit; the numbers of the files tried are whole.

Word(s) == [c |-> s, n |-> 0]

\* float(text) succeeds
IsNumber(tok) == tok.c = ""

\* float(text), in hundredths
Float(tok) == 100 * tok.n

\* the values of the attributes of a primitive that are present
Present(prim, names) == { prim[a][1] : a \in { b \in names : prim[b] # << >> } }

\* re.finditer(r'[ML]([\d.]+),([\d.]+)'): the segments of a path that are an
\* M or an L directly followed by two unsigned numbers with a comma between
Matched(prim) ==
  { k \in 1 .. Len(prim.segs) :
      /\ prim.segs[k].cmd \in {"M", "L"}
      /\ prim.segs[k].comma
      /\ prim.segs[k].x >= 0
      /\ prim.segs[k].y >= 0 }

\* the numbers one primitive adds to xs and ys, or the exception float() raises
Coordinates(prim) ==
  IF prim.kind = "path"
  THEN [raised |-> "",
        xs |-> { 100 * prim.segs[k].x : k \in Matched(prim) },
        ys |-> { 100 * prim.segs[k].y : k \in Matched(prim) }]
  ELSE IF prim.kind = "line"
  THEN IF \E t \in Present(prim, {"x1", "x2", "y1", "y2"}) : ~IsNumber(t)
       THEN [raised |-> "ValueError", xs |-> {}, ys |-> {}]
       ELSE [raised |-> "",
             xs |-> { Float(t) : t \in Present(prim, {"x1", "x2"}) },
             ys |-> { Float(t) : t \in Present(prim, {"y1", "y2"}) }]
  ELSE IF prim.kind = "rect"
  THEN IF \E a \in {"x", "y", "width", "height"} : prim[a] = << >>
       THEN [raised |-> "", xs |-> {}, ys |-> {}]
       ELSE IF \E t \in Present(prim, {"x", "y", "width", "height"}) : ~IsNumber(t)
       THEN [raised |-> "ValueError", xs |-> {}, ys |-> {}]
       ELSE [raised |-> "",
             xs |-> { Float(prim.x[1]), Float(prim.x[1]) + Float(prim.width[1]) },
             ys |-> { Float(prim.y[1]), Float(prim.y[1]) + Float(prim.height[1]) }]
  ELSE IF \E a \in {"cx", "cy", "r"} : prim[a] = << >>
       THEN [raised |-> "", xs |-> {}, ys |-> {}]
       ELSE IF \E t \in Present(prim, {"cx", "cy", "r"}) : ~IsNumber(t)
       THEN [raised |-> "ValueError", xs |-> {}, ys |-> {}]
       ELSE [raised |-> "",
             xs |-> { Float(prim.cx[1]) - Float(prim.r[1]), Float(prim.cx[1]) + Float(prim.r[1]) },
             ys |-> { Float(prim.cy[1]) - Float(prim.r[1]), Float(prim.cy[1]) + Float(prim.r[1]) }]

\* _extract_content_bbox(svg_text): the bounding box, None, or an exception
extract_content_bbox(svg_text) ==
  LET body  == IF svg_text.defs_end THEN svg_text.body
               ELSE svg_text.head \o svg_text.body
      found == [k \in 1 .. Len(body) |-> Coordinates(body[k])]
      xs    == UNION { found[k].xs : k \in 1 .. Len(body) }
      ys    == UNION { found[k].ys : k \in 1 .. Len(body) }
  IN  IF \E k \in 1 .. Len(body) : found[k].raised # ""
      THEN [raised |-> "ValueError", bbox |-> None]
      ELSE IF xs = {} \/ ys = {}
      THEN [raised |-> "", bbox |-> None]
      ELSE [raised |-> "", bbox |-> <<MinOf(xs), MinOf(ys), MaxOf(xs), MaxOf(ys)>>]

\* what float(parts[0]) .. float(parts[3]) raise, "" when all four succeed
ViewBoxError(parts) ==
  LET bad == { i \in 1 .. 4 : i > Len(parts) \/ ~IsNumber(parts[i]) }
  IN  IF bad = {} THEN ""
      ELSE IF MinOf(bad) > Len(parts) THEN "IndexError" ELSE "ValueError"

\* a call that ends by an exception writes no file and returns nothing
Raise(exception) == [raised |-> exception, returned |-> "", written |-> {}]

\* the new width and height in mm, each a quotient <<numerator, denominator>>
\* of hundredths, or the attributes as they were
Rescale(svg_text, vb_w, new_vb_w, new_vb_h) ==
  IF svg_text.width # << >> /\ svg_text.height # << >>
  THEN IF vb_w = 0
       THEN [raised |-> "ZeroDivisionError", width |-> << >>, height |-> << >>]
       ELSE [raised |-> "",
             width  |-> <<new_vb_w * Float(svg_text.width[1]), vb_w>>,
             height |-> <<new_vb_h * Float(svg_text.width[1]), vb_w>>]
  ELSE [raised |-> "", width |-> svg_text.width, height |-> svg_text.height]

\* center_svg(svg_path) on a file with the text svg_text, where mkstemp would
\* create the file output_path
center_svg(svg_text, svg_path, output_path) ==
  IF ~svg_text.has_viewBox THEN Raise("ValueError")
  ELSE IF ViewBoxError(svg_text.viewBox) # "" THEN Raise(ViewBoxError(svg_text.viewBox))
  ELSE LET vb_w  == Float(svg_text.viewBox[3])
           found == extract_content_bbox(svg_text)
       IN  IF found.raised # "" THEN Raise(found.raised)
           ELSE IF found.bbox = None
           THEN [raised |-> "", returned |-> svg_path, written |-> {}]
           ELSE LET bbox      == found.bbox
                    content_w == bbox[3] - bbox[1]
                    content_h == bbox[4] - bbox[2]
                    margin    == Max(content_w, content_h) \div 100
                    new_vb    == <<bbox[1] - margin, bbox[2] - margin,
                                   content_w + 2 * margin, content_h + 2 * margin>>
                    sizes     == Rescale(svg_text, vb_w, new_vb[3], new_vb[4])
                IN  IF sizes.raised # "" THEN Raise(sizes.raised)
                    ELSE [raised   |-> "",
                          returned |-> output_path,
                          written  |-> { <<output_path,
                                           [viewBox |-> new_vb,
                                            width   |-> sizes.width,
                                            height  |-> sizes.height,
                                            head    |-> svg_text.head,
                                            body    |-> svg_text.body]>> }]

-----------------------------------------------------------------------------
(* FloodFiller.build_boundary_raster (flood_fill.py)                       *)

\* The binary image of build_boundary_raster is held as the set of its
\* boundary pixels, the pixels of value 0; every other pixel holds 255.

\* cv2.threshold(gray, 200, 255, cv2.THRESH_BINARY): the pixels that get 0
threshold(w, h, gray) == BoolArray({ p \in Grid(w, h) : ~(gray[p] > 200) })

\* _coords_to_pixels
coords_to_pixels(f, coords) ==
  [i \in 1 .. Len(coords) |->
     <<ToPixel(coords[i][1], f.viewbox[1], f.scale),
       ToPixel(coords[i][2], f.viewbox[2], f.scale)>>]

\* _is_closed_polygon; coordinates are in halves, so a difference below 0.5 is
\* no difference
is_closed_polygon(coords) ==
  /\ Len(coords) >= 3
  /\ Abs(coords[1][1] - coords[Len(coords)][1]) < 1
  /\ Abs(coords[1][2] - coords[Len(coords)][2]) < 1

\* a line of cv2.polylines(..., thickness=4): the pixels within 2 of the segment
\* p1-p2 (a band with round ends), clipped to the image
ThickLine(w, h, p1, p2) ==
  LET dx == p2[1] - p1[1]
      dy == p2[2] - p1[2]
      L  == dx * dx + dy * dy
      Near(q) ==
        LET vx  == q[1] - p1[1]
            vy  == q[2] - p1[2]
            ux  == q[1] - p2[1]
            uy  == q[2] - p2[2]
            dot == vx * dx + vy * dy
            crs == vx * dy - vy * dx
        IN  IF dot <= 0 THEN vx * vx + vy * vy <= 4
            ELSE IF dot >= L THEN ux * ux + uy * uy <= 4
            ELSE crs * crs <= 4 * L
  IN  { q \in Grid(w, h) : Near(q) }

\* cv2.fillPoly(binary, [pts], 0): the pixels on the edges of the polygon and
\* the pixels a ray to the right leaves through an odd number of edges
fillPoly(w, h, pts) ==
  LET n       == Len(pts)
      nxt(i)  == IF i = n THEN 1 ELSE i + 1
      OnEdge(q, a, b) ==
        /\ (q[1] - a[1]) * (b[2] - a[2]) = (q[2] - a[2]) * (b[1] - a[1])
        /\ (q[1] - a[1]) * (q[1] - b[1]) <= 0
        /\ (q[2] - a[2]) * (q[2] - b[2]) <= 0
      Crosses(q, a, b) ==
        /\ (a[2] > q[2]) # (b[2] > q[2])
        /\ IF b[2] > a[2]
           THEN (q[1] - a[1]) * (b[2] - a[2]) < (q[2] - a[2]) * (b[1] - a[1])
           ELSE (q[1] - a[1]) * (b[2] - a[2]) > (q[2] - a[2]) * (b[1] - a[1])
  IN  { q \in Grid(w, h) :
          \/ \E i \in 1 .. n : OnEdge(q, pts[i], pts[nxt(i)])
          \/ Cardinality({ i \in 1 .. n : Crosses(q, pts[i], pts[nxt(i)]) }) % 2 = 1 }

\* step 2 for one path: nothing for a path of fewer than two points
WallPath(f, coords) ==
  LET pts == coords_to_pixels(f, coords)
      w   == f.raster_w
      h   == f.raster_h
  IN  IF Len(pts) < 2 THEN {}
      ELSE BoolArray(UNION { ThickLine(w, h, pts[i], pts[i + 1]) : i \in 1 .. Len(pts) - 1 }
                       \cup (IF Len(pts) >= 3 /\ is_closed_polygon(coords)
                             THEN fillPoly(w, h, pts) ELSE {}))

\* step 2 with the paths drawn in color 255
DrawWallsWhite(f, binary, wall_elements) ==
  BoolArray(binary \ UNION { UNION { WallPath(f, wall_elements[e].paths[k]) :
                                       k \in 1 .. Len(wall_elements[e].paths) } :
                               e \in 1 .. Len(wall_elements) })

\* step 2: the wall paths drawn in color 0
DrawWalls(f, binary, wall_elements) ==
  BoolArray(binary \cup UNION { UNION { WallPath(f, wall_elements[e].paths[k]) :
                                          k \in 1 .. Len(wall_elements[e].paths) } :
                                  e \in 1 .. Len(wall_elements) })

\* the corners (px1, py1), (px2, py2) of the rectangle of step 3
SealBox(f, elem) ==
  <<ToPixel(elem.bbox[1], f.viewbox[1], f.scale),
    ToPixel(elem.bbox[2], f.viewbox[2], f.scale),
    ToPixel(elem.bbox[1] + elem.bbox[3], f.viewbox[1], f.scale),
    ToPixel(elem.bbox[2] + elem.bbox[4], f.viewbox[2], f.scale)>>

\* the pixels of all the rectangles of step 3
SealedPixels(f, elements) ==
  BoolArray({ p \in Grid(f.raster_w, f.raster_h) :
                \E e \in 1 .. Len(elements) : InRect(p, SealBox(f, elements[e])) })

\* step 3 with the rectangles filled with 255
SealOpeningsWhite(f, binary, elements) == BoolArray(binary \ SealedPixels(f, elements))

\* step 3: cv2.rectangle(binary, (px1, py1), (px2, py2), 0, -1) for the doors
\* and the windows
SealOpenings(f, binary, elements) == BoolArray(binary \cup SealedPixels(f, elements))

\* cv2.erode with np.ones((5, 5)): a pixel stays when the pixels around it
\* inside the image are all set
erode5(w, h, m) ==
  { p \in m : \A dx \in -2 .. 2, dy \in -2 .. 2 :
      InBounds(<<p[1] + dx, p[2] + dy>>, w, h) => <<p[1] + dx, p[2] + dy>> \in m }

\* step 4: cv2.morphologyEx(binary, cv2.MORPH_CLOSE, kernel) dilates and then
\* erodes the pixels of value 255; the pixels that hold 0 afterwards
morphologyClose(w, h, binary) ==
  LET white   == BoolArray(Grid(w, h) \ binary)
      dilated == BoolArray(dilate5(w, h, white))
  IN  BoolArray(Grid(w, h) \ erode5(w, h, dilated))

\* the binary image as an array
BinaryImage(w, h, binary) ==
  Array([p \in Grid(w, h) |-> IF p \in binary THEN 0 ELSE 255])

\* build_boundary_raster: the boundary pixels after each of its four steps
build_boundary_raster(f, gray, wall_elements, door_elements, window_elements) ==
  LET w      == f.raster_w
      h      == f.raster_h
      step1  == threshold(w, h, gray)
      step2  == DrawWalls(f, step1, wall_elements)
      step3  == SealOpenings(f, step2, door_elements \o window_elements)
      step4  == morphologyClose(w, h, step3)
  IN  [step1 |-> step1, step2 |-> step2, step3 |-> step3, binary |-> step4]

-----------------------------------------------------------------------------
(* The editing session: MainWindow (app.py) and FloorPlanCanvas (canvas.py) *)

MaxRooms == 2       \* a click creates a room only while the room counter is below

ROOM_TYPES == {"bedroom", "livingroom", "diningroom"}

\* the floor plan the user opens, and the pixels the user clicks: two in the
\* left room, one on the wall, one in the right room, one off the raster
SessionRasters == {RasterTwoRooms}
ClickPoints == {<<5, 0>>, <<5, 9>>, <<12, 4>>, <<19, 5>>, <<30, 5>>}

\* a room built without its seam
RoomWithoutLine(id, label, flood_mask, unit_id, split_from, split_line_px) ==
  [id |-> id, label |-> label, flood_mask |-> flood_mask, unit_id |-> unit_id,
   split_from |-> split_from, split_line_px |-> None]

Room(id, label, flood_mask, unit_id, split_from, split_line_px) ==
  [id |-> id, label |-> label, flood_mask |-> flood_mask, unit_id |-> unit_id,
   split_from |-> split_from, split_line_px |-> split_line_px]

ApartmentUnit(id, room_ids) == [id |-> id, room_ids |-> room_ids]

\* a counter that handed out its value without moving on
IssueIdStuck(counter) == counter

\* self._room_counter += 1 and self._unit_counter += 1
IssueId(counter) == counter + 1

Range(seq) == { seq[i] : i \in 1 .. Len(seq) }

Ids(seq) == [i \in 1 .. Len(seq) |-> seq[i].id]

\* _find_room: the first room with the id, or None
find_room(room_id) ==
  IF \E i \in 1 .. Len(rooms) : rooms[i].id = room_id
  THEN rooms[CHOOSE i \in 1 .. Len(rooms) :
               rooms[i].id = room_id /\ \A j \in 1 .. i - 1 : rooms[j].id # room_id]
  ELSE None

\* _clear_split_state
clear_split_state ==
  /\ split_target_room' = None
  /\ split_contour' = None
  /\ split_half_a' = None
  /\ split_half_b' = None
  /\ split_p1' = None
  /\ split_p2' = None
  /\ split_toolbar_visible' = FALSE
  /\ UNCHANGED split_confirm_enabled

splitVars == <<split_target_room, split_contour, split_half_a, split_half_b, split_p1,
               split_p2, split_toolbar_visible, split_confirm_enabled>>

\* FloorPlanCanvas.enter_split_mode
enter_split_mode(room_id, contour_px) ==
  /\ c_split_mode' = TRUE
  /\ c_split_state' = "IDLE"
  /\ c_split_p1' = None
  /\ c_split_p2' = None
  /\ c_split_contour' = contour_px
  /\ c_split_room_id' = room_id

\* FloorPlanCanvas.exit_split_mode
exit_split_mode ==
  /\ c_split_mode' = FALSE
  /\ c_split_state' = "IDLE"
  /\ c_split_p1' = None
  /\ c_split_p2' = None
  /\ c_split_contour' = None
  /\ c_split_room_id' = NoneId

\* a reset that forgets the split in progress
resetKeepingSplit ==
  /\ rooms' = << >>
  /\ units' = << >>
  /\ unit_counter' = 1
  /\ room_counter' = 0
  /\ room_list' = << >>
  /\ current_row' = 0
  /\ UNCHANGED splitVars
  /\ issued_room_ids' = << >>
  /\ issued_unit_ids' = << >>

\* _reset, the part shared by Reset and Open SVG
reset ==
  /\ rooms' = << >>
  /\ units' = << >>
  /\ unit_counter' = 1
  /\ room_counter' = 0
  /\ room_list' = << >>
  /\ current_row' = 0
  /\ clear_split_state
  /\ issued_room_ids' = << >>
  /\ issued_unit_ids' = << >>

\* the Reset button
Reset ==
  /\ reset
  /\ filler' = None
  /\ base_pixmap_item' = FALSE
  /\ lastOp' = "reset"
  /\ UNCHANGED <<c_split_mode, c_split_state, c_split_p1, c_split_p2, c_split_contour,
                 c_split_room_id, callVars>>

\* Open SVG with a file chosen: _reset, then the boundary raster of the file
\* and its picture on the canvas
OpenSvg ==
  \E r \in SessionRasters :
    /\ reset
    /\ filler' = r
    /\ base_pixmap_item' = TRUE
    /\ lastOp' = "open_svg"
    /\ UNCHANGED <<c_split_mode, c_split_state, c_split_p1, c_split_p2, c_split_contour,
                   c_split_room_id, callVars>>

\* the split branch taken only until the line is complete
SplitBranchUntilComplete ==
  c_split_mode /\ c_split_contour # None /\ c_split_state # "COMPLETE"

\* mousePressEvent, "Split mode takes precedence": the test that sends a left
\* click on the raster to the split branch and not to room_clicked
SplitBranch == c_split_mode /\ c_split_contour # None

\* mousePressEvent, left button, where the canvas hands the click to nobody:
\* no picture loaded, the pixel off the raster, or a split line already drawn
ClickIgnored ==
  \E p \in ClickPoints :
    /\ \/ ~base_pixmap_item
       \/ (base_pixmap_item /\ ~InBounds(p, filler.raster_w, filler.raster_h))
       \/ (base_pixmap_item /\ InBounds(p, filler.raster_w, filler.raster_h)
           /\ SplitBranch /\ c_split_state = "COMPLETE")
    /\ UNCHANGED lastOp
    /\ UNCHANGED <<appVars, canvasVars, issued_room_ids, issued_unit_ids, callVars>>

\* a click tested against no room at all
ClickGuardSkipped == {}

\* the rooms a click is tested against in _on_room_clicked
ClickGuardRooms == { i \in 1 .. Len(rooms) : rooms[i].unit_id = NoneId }

\* mousePressEvent outside split mode: room_clicked -> _on_room_clicked
RoomClick ==
  \E p \in ClickPoints :
    /\ base_pixmap_item
    /\ InBounds(p, filler.raster_w, filler.raster_h)
    /\ ~SplitBranch
    /\ room_counter < MaxRooms
    /\ IF \E i \in ClickGuardRooms : p \in rooms[i].flood_mask
       THEN /\ UNCHANGED lastOp
            /\ UNCHANGED <<appVars, issued_room_ids>>
       ELSE LET res == fill_at(filler, p[1], p[2])
            IN  /\ filler' = [filler EXCEPT !.boundary_image = res.image]
                /\ IF res.kind = "mask"
                   THEN /\ rooms' = Append(rooms, Room(room_counter, "", res.mask, NoneId, NoneId, None))
                        /\ room_counter' = IssueId(room_counter)
                        /\ room_list' = Append(room_list, room_counter)
                        /\ current_row' = Len(room_list) + 1
                        /\ issued_room_ids' = Append(issued_room_ids, room_counter)
                        /\ lastOp' = "room_created"
                   ELSE /\ UNCHANGED lastOp
                        /\ UNCHANGED <<rooms, room_counter, room_list, current_row, issued_room_ids>>
                /\ UNCHANGED <<units, unit_counter, splitVars>>
    /\ UNCHANGED <<canvasVars, issued_unit_ids, callVars>>

\* the user picks another entry of the room list
SelectRoomItem ==
  \E i \in 1 .. Len(room_list) :
    /\ i # current_row
    /\ current_row' = i
    /\ lastOp' = "select"
    /\ UNCHANGED <<filler, rooms, units, unit_counter, room_counter, splitVars, room_list,
                   canvasVars, issued_room_ids, issued_unit_ids, callVars>>

\* rooms with one field of the room room_id replaced
WithLabel(room_id, label) ==
  [i \in 1 .. Len(rooms) |->
     IF rooms[i].id = room_id THEN [rooms[i] EXCEPT !.label = label] ELSE rooms[i]]

\* a label button: _assign_label
AssignLabel ==
  \E label \in ROOM_TYPES :
    /\ IF current_row = 0 \/ find_room(room_list[current_row]) = None
       THEN /\ UNCHANGED lastOp
            /\ UNCHANGED rooms
       ELSE /\ rooms' = WithLabel(room_list[current_row], label)
            /\ lastOp' = "label"
    /\ UNCHANGED <<filler, units, unit_counter, room_counter, splitVars, room_list,
                   current_row, canvasVars, issued_room_ids, issued_unit_ids, callVars>>

\* seq without its i-th element
RemoveAt(seq, i) == [j \in 1 .. Len(seq) - 1 |-> IF j < i THEN seq[j] ELSE seq[j + 1]]

\* Delete Selected: _delete_room; the list then makes the entry after the
\* removed one current, or the one before it when the last was removed
DeleteRoom ==
  /\ IF current_row = 0
     THEN /\ UNCHANGED lastOp
          /\ UNCHANGED <<rooms, room_list, current_row>>
     ELSE /\ rooms' = SelectSeq(rooms, LAMBDA r : r.id # room_list[current_row])
          /\ room_list' = RemoveAt(room_list, current_row)
          /\ current_row' = IF current_row <= Len(room_list) - 1 THEN current_row
                            ELSE Len(room_list) - 1
          /\ lastOp' = "delete"
  /\ UNCHANGED <<filler, units, unit_counter, room_counter, splitVars, canvasVars,
                 issued_room_ids, issued_unit_ids, callVars>>

\* _begin_split(room)
begin_split(room) ==
  LET contour == mask_to_contour(room.flood_mask)
  IN  /\ split_target_room' = room
      /\ split_contour' = contour
      /\ split_half_a' = None
      /\ split_half_b' = None
      /\ split_p1' = None
      /\ split_p2' = None
      /\ enter_split_mode(room.id, contour)
      /\ split_toolbar_visible' = TRUE
      /\ split_confirm_enabled' = FALSE

\* a unit accepted as soon as one of its rooms has a label
has_labelled_room(current_rooms) ==
  \E k \in 1 .. Len(current_rooms) : current_rooms[k].label # ""

\* _save_unit's validation: at least one of the rooms is a diningroom
has_diningroom(current_rooms) ==
  \E k \in 1 .. Len(current_rooms) : current_rooms[k].label = "diningroom"

\* Save as Unit: _save_unit, then _check_split_candidates on the new unit; in
\* a unit without a livingroom the user picks one of its diningrooms to split,
\* or declines
SaveUnit ==
  LET current == { i \in 1 .. Len(rooms) : rooms[i].unit_id = NoneId }
      saved   == [i \in 1 .. Len(rooms) |->
                    IF i \in current THEN [rooms[i] EXCEPT !.unit_id = unit_counter]
                    ELSE rooms[i]]
      unit    == ApartmentUnit(unit_counter,
                               Ids(SelectSeq(rooms, LAMBDA r : r.unit_id = NoneId)))
      unit_rooms == { i \in 1 .. Len(saved) : saved[i].unit_id = unit_counter }
      diningrooms == { i \in unit_rooms : saved[i].label = "diningroom" }
  IN  /\ IF current = {}
         THEN /\ UNCHANGED lastOp
              /\ UNCHANGED <<windowVars, canvasVars, issued_unit_ids>>
         ELSE IF ~ has_diningroom(SelectSeq(rooms, LAMBDA r : r.unit_id = NoneId))
         THEN /\ UNCHANGED lastOp
              /\ UNCHANGED <<windowVars, canvasVars, issued_unit_ids>>
         ELSE /\ rooms' = saved
              /\ units' = Append(units, unit)
              /\ room_list' = << >>
              /\ current_row' = 0
              /\ unit_counter' = IssueId(unit_counter)
              /\ issued_unit_ids' = Append(issued_unit_ids, unit_counter)
              /\ UNCHANGED <<room_counter, base_pixmap_item>>
              /\ \/ /\ lastOp' = "save"
                    /\ UNCHANGED <<splitVars, c_split_mode, c_split_state, c_split_p1,
                                   c_split_p2, c_split_contour, c_split_room_id>>
                 \/ /\ ~ \E i \in unit_rooms : saved[i].label = "livingroom"
                    /\ \E i \in diningrooms :
                         /\ begin_split(saved[i])
                         /\ lastOp' = "save_begin_split"
      /\ UNCHANGED <<filler, issued_room_ids, callVars>>

\* a redo that keeps the endpoints of the line drawn
on_split_redo_keeping_line ==
  /\ split_half_a' = None
  /\ split_half_b' = None
  /\ split_confirm_enabled' = FALSE
  /\ enter_split_mode(split_target_room.id, split_contour)
  /\ split_p1' = c_split_p1
  /\ split_p2' = c_split_p1
  /\ UNCHANGED <<split_target_room, split_contour, split_toolbar_visible>>

\* _on_split_redo
on_split_redo ==
  /\ split_half_a' = None
  /\ split_half_b' = None
  /\ split_p1' = None
  /\ split_p2' = None
  /\ split_confirm_enabled' = FALSE
  /\ enter_split_mode(split_target_room.id, split_contour)
  /\ UNCHANGED <<split_target_room, split_contour, split_toolbar_visible>>

\* mousePressEvent in split mode: the click is snapped to the contour; the
\* first click is kept, the second completes the line and split_line_drawn
\* runs _on_split_line_drawn, which cuts the room or starts over
SplitClick ==
  \E p \in ClickPoints :
    /\ base_pixmap_item
    /\ InBounds(p, filler.raster_w, filler.raster_h)
    /\ SplitBranch
    /\ c_split_state # "COMPLETE"
    /\ LET snapped == snap_to_contour(p, c_split_contour)
       IN  IF c_split_state = "IDLE"
           THEN /\ c_split_p1' = snapped
                /\ c_split_state' = "FIRST_CLICK"
                /\ lastOp' = "split_first_click"
                /\ UNCHANGED <<splitVars, c_split_mode, c_split_p2, c_split_contour,
                               c_split_room_id>>
           ELSE IF split_target_room = None
           THEN \* room.flood_mask on None: AttributeError out of the handler
                /\ c_split_p2' = snapped
                /\ c_split_state' = "COMPLETE"
                /\ split_p1' = c_split_p1
                /\ split_p2' = snapped
                /\ lastOp' = "split_line_drawn:AttributeError"
                /\ UNCHANGED <<split_target_room, split_contour, split_half_a, split_half_b,
                               split_toolbar_visible, split_confirm_enabled, c_split_mode,
                               c_split_p1, c_split_contour, c_split_room_id>>
           ELSE LET res == split_mask(filler.raster_w, filler.raster_h,
                                      split_target_room.flood_mask, c_split_p1, snapped)
                IN  IF res.kind = "ValueError"
                    THEN /\ on_split_redo
                         /\ lastOp' = "split_line_failed"
                    ELSE /\ c_split_p2' = snapped
                         /\ c_split_state' = "COMPLETE"
                         /\ split_p1' = c_split_p1
                         /\ split_p2' = snapped
                         /\ split_half_a' = <<res.half_a>>
                         /\ split_half_b' = <<res.half_b>>
                         /\ split_confirm_enabled' = TRUE
                         /\ lastOp' = "split_line_drawn"
                         /\ UNCHANGED <<split_target_room, split_contour,
                                        split_toolbar_visible, c_split_mode, c_split_p1,
                                        c_split_contour, c_split_room_id>>
    /\ UNCHANGED <<filler, rooms, units, unit_counter, room_counter, room_list, current_row,
                   base_pixmap_item, issued_room_ids, issued_unit_ids, callVars>>

\* the toolbar's Redo Line button
SplitRedo ==
  /\ split_toolbar_visible
  /\ on_split_redo
  /\ lastOp' = "split_redo"
  /\ UNCHANGED <<filler, rooms, units, unit_counter, room_counter, room_list, current_row,
                 base_pixmap_item, issued_room_ids, issued_unit_ids, callVars>>

\* the toolbar's Cancel Split button: _on_split_cancel
SplitCancel ==
  /\ split_toolbar_visible
  /\ exit_split_mode
  /\ clear_split_state
  /\ lastOp' = "split_cancel"
  /\ UNCHANGED <<filler, rooms, units, unit_counter, room_counter, room_list, current_row,
                 base_pixmap_item, issued_room_ids, issued_unit_ids, callVars>>

\* the two rooms added, the room they were cut from left in place
SplitRoomsParentKept(original_id, room_lr, room_dr) == rooms \o <<room_lr, room_dr>>

\* the room list after _finalize_split has replaced the room original_id by
\* the two rooms cut from it
SplitRooms(original_id, room_lr, room_dr) ==
  SelectSeq(rooms, LAMBDA r : r.id # original_id) \o <<room_lr, room_dr>>

\* a member list left as it was
SplitRoomIdsKept(room_ids, original_id, lr_id, dr_id) == room_ids

\* room_ids after _finalize_split took original_id out and added the new ids
SplitRoomIds(room_ids, original_id, lr_id, dr_id) ==
  SelectSeq(room_ids, LAMBDA rid : rid # original_id) \o <<lr_id, dr_id>>

\* the units after _finalize_split has updated the first unit with the id
SplitUnits(unit_id, original_id, lr_id, dr_id) ==
  LET k == CHOOSE i \in 1 .. Len(units) :
             units[i].id = unit_id /\ \A j \in 1 .. i - 1 : units[j].id # unit_id
  IN  [units EXCEPT ![k].room_ids = SplitRoomIds(@, original_id, lr_id, dr_id)]

\* the toolbar's Confirm Split button: _on_split_confirm, the answer to
\* _show_split_type_dialog, and _finalize_split
SplitConfirm ==
  \E cyan \in BOOLEAN :
    /\ split_toolbar_visible
    /\ split_confirm_enabled
    /\ exit_split_mode
    /\ LET lr_mask  == IF cyan THEN split_half_a[1] ELSE split_half_b[1]
           dr_mask  == IF cyan THEN split_half_b[1] ELSE split_half_a[1]
           original == split_target_room
           lr_id    == room_counter
           dr_id    == IssueId(lr_id)
           line     == <<split_p1, split_p2>>
           room_lr  == Room(lr_id, "livingroom", lr_mask, original.unit_id, original.id, line)
           room_dr  == Room(dr_id, "diningroom", dr_mask, original.unit_id, original.id, line)
       IN  /\ room_counter' = IssueId(dr_id)
           /\ issued_room_ids' = issued_room_ids \o <<lr_id, dr_id>>
           /\ rooms' = SplitRooms(original.id, room_lr, room_dr)
           /\ IF \E i \in 1 .. Len(units) : units[i].id = original.unit_id
              THEN /\ units' = SplitUnits(original.unit_id, original.id, lr_id, dr_id)
                   /\ clear_split_state
                   /\ lastOp' = "finalize_split"
              ELSE \* next() on an empty generator: StopIteration out of the handler
                   /\ lastOp' = "finalize_split:StopIteration"
                   /\ UNCHANGED <<units, splitVars>>
    /\ UNCHANGED <<filler, unit_counter, room_list, current_row, base_pixmap_item,
                   issued_unit_ids, callVars>>

\* Exporter.export_all's parameters after self; none has a default and there
\* is no **kwargs
ExportAllParameters ==
  {"svg_path", "input_name", "rooms", "units", "filler", "height_m", "output_dir"}

\* a call by keywords alone is bound when every keyword names a parameter and
\* every parameter without a default is given; TypeError otherwise
Binds(keywords, parameters) ==
  keywords \subseteq parameters /\ parameters \subseteq keywords

\* the rooms of a unit as export_all collects them
UnitRooms(all_rooms, unit) == SelectSeq(all_rooms, LAMBDA r : r.unit_id = unit.id)

\* Exporter.export_all called with the keyword arguments kwargs: the entries
\* of metadata["units"], each with the ids of the rooms it was written from
export_all(kwargs) ==
  IF ~Binds(DOMAIN kwargs, ExportAllParameters)
  THEN [raised |-> "TypeError", units |-> << >>]
  ELSE [raised |-> "",
        units  |-> [i \in 1 .. Len(kwargs.units) |->
                      LET unit_rooms == UnitRooms(kwargs.rooms, kwargs.units[i])
                      IN  [unit_id |-> kwargs.units[i].id,
                           rooms   |-> [k \in 1 .. Len(unit_rooms) |-> unit_rooms[k].id]]]]

\* what QFileDialog.getExistingDirectory returns: "" when the dialog is
\* dismissed
OutputDirs == {"", "out"}

\* the keyword arguments _export_all passes to export_all
ExportAllArguments(output_dir) ==
  [svg_path       |-> "centered.svg",
   input_name     |-> "plan",
   rooms          |-> rooms,
   units          |-> units,
   mask_generator |-> [filler |-> filler],
   output_dir     |-> output_dir]

\* the Export All button: _export_all
ExportAll ==
  \E output_dir \in OutputDirs :
    IF units = << >> \/ output_dir = ""
    THEN UNCHANGED vars
    ELSE LET res == export_all(ExportAllArguments(output_dir))
         IN  /\ call' = [fn |-> "export_all", result |-> res]
             /\ lastOp' = IF res.raised = "" THEN "export_all" ELSE "export_all:TypeError"
             /\ UNCHANGED <<appVars, canvasVars, issued_room_ids, issued_unit_ids,
                            fills, test_mask>>

Next ==
  \/ OpenSvg
  \/ Reset
  \/ ClickIgnored
  \/ RoomClick
  \/ SelectRoomItem
  \/ AssignLabel
  \/ DeleteRoom
  \/ SaveUnit
  \/ SplitClick
  \/ SplitRedo
  \/ SplitCancel
  \/ SplitConfirm
  \/ ExportAll

Init == SessionInit /\ NoCalls

Spec == Init /\ [][Next]_vars

-----------------------------------------------------------------------------
(* Direct calls of MaskGenerator                                           *)

\* FloodFiller.__init__ for a viewbox in halves of SVG units and a scale
FloodFillerAt(viewbox, scale) ==
  [viewbox  |-> viewbox,
   scale    |-> scale,
   raster_w |-> Trunc(viewbox[3] * scale[1], 2 * scale[2]),
   raster_h |-> Trunc(viewbox[4] * scale[1], 2 * scale[2]),
   boundary_image |-> None]

\* two fillers with a raster of 12 x 10 pixels: 12 x 10 units from (0, 0) at
\* one pixel per unit, and 8 x 7 units from (-3.5, 2.5) at 1.5 pixels per unit
GenFillers ==
  { FloodFillerAt(<<0, 0, 24, 20>>, <<1, 1>>),
    FloodFillerAt(<<-7, 5, 16, 14>>, <<3, 2>>) }

IfcElement(paths, bbox) == [paths |-> paths, bbox |-> bbox]

\* doors: one upright in the middle of the raster, one far off the raster
DoorMid == IfcElement(<< << <<14, 4>>, <<14, 12>> >> >>, <<14, 4, 0, 8>>)
DoorFar == IfcElement(<< << <<80, 4>>, <<80, 12>> >> >>, <<80, 4, 0, 8>>)

\* windows: one lying along the top, one sloping across the door, one with a
\* path of a single point
WindowTop   == IfcElement(<< << <<2, 2>>, <<12, 2>> >> >>, <<2, 2, 10, 0>>)
WindowCross == IfcElement(<< << <<10, 4>>, <<16, 8>>, <<16, 14>> >>, << <<3, 3>> >> >>,
                          <<10, 4, 6, 10>>)

DoorLists == { << >>, <<DoorMid>>, <<DoorFar, DoorMid>> }

WindowLists == { << >>, <<WindowTop>>, <<WindowTop, WindowCross>> }

Rect(x1, y1, x2, y2) == { p \in (x1 .. x2) \X (y1 .. y2) : TRUE }

\* rooms on the 12 x 10 raster: a square, an L, and the halves of two rooms
\* cut by split_mask, with the seam they were cut along
UpHalves   == split_mask(12, 10, Rect(1, 1, 9, 7), <<5, 1>>, <<5, 7>>)
SlopeHalves == split_mask(12, 10, Rect(1, 1, 10, 8), <<1, 1>>, <<10, 8>>)

GenSquare == Room(0, "bedroom", Rect(2, 2, 6, 6), 1, NoneId, None)

GenEll == Room(1, "diningroom", Rect(2, 2, 9, 4) \cup Rect(2, 5, 4, 8), 1, NoneId, None)

GenUpA == Room(2, "livingroom", UpHalves.half_a, 1, 0, << <<5, 1>>, <<5, 7>> >>)

GenUpB == Room(3, "diningroom", UpHalves.half_b, 1, 0, << <<5, 1>>, <<5, 7>> >>)

GenSlopeA == Room(2, "livingroom", SlopeHalves.half_a, 1, 0, << <<1, 1>>, <<10, 8>> >>)

GenSlopeB == Room(3, "diningroom", SlopeHalves.half_b, 1, 0, << <<1, 1>>, <<10, 8>> >>)

GenRoomLists ==
  { <<GenSquare>>, <<GenEll>>, <<GenUpA, GenUpB>>, <<GenSlopeA, GenSlopeB>>,
    <<GenSquare, GenUpB>> }

GenInit ==
  /\ filler \in GenFillers
  /\ WindowInit
  /\ call = None
  /\ fills = << >>
  /\ \E ds \in DoorLists, ws \in WindowLists, rs \in GenRoomLists :
       test_mask = [doors |-> ds, windows |-> ws, rooms |-> rs]

\* MaskGenerator(filler, doors, windows)
MaskGenerator == [filler |-> filler, doors |-> test_mask.doors, windows |-> test_mask.windows]

\* one call generate_mask(room); the raster before padding is kept beside
\* the result
GenerateMask ==
  /\ call = None
  /\ \E i \in 1 .. Len(test_mask.rooms) :
       call' = [fn |-> "generate_mask", room |-> test_mask.rooms[i],
                raw |-> room_raster(MaskGenerator, test_mask.rooms[i]),
                result |-> generate_mask(MaskGenerator, test_mask.rooms[i])]
  /\ UNCHANGED <<appVars, canvasVars, histVars, fills, test_mask>>

\* one call generate_combined_mask(rooms)
GenerateCombinedMask ==
  /\ call = None
  /\ call' = [fn |-> "generate_combined_mask",
              raw |-> combined_raster(MaskGenerator, test_mask.rooms),
              result |-> generate_combined_mask(MaskGenerator, test_mask.rooms)]
  /\ UNCHANGED <<appVars, canvasVars, histVars, fills, test_mask>>

GenNextStep == GenerateMask \/ GenerateCombinedMask \/ Return

GenSpec == GenInit /\ [][GenNextStep]_vars

-----------------------------------------------------------------------------
(* Direct calls of _extract_boundary_meters                                *)

MaxSide == 9        \* the sides of the rooms tried are below it

\* rooms: the upright rectangles, the stairs of n steps of size s, and the
\* combs of n teeth of length t (a high-frequency contour)
RectRoom(a, b) == Rect(0, 0, a, b)

StairRoom(s, n) == UNION { Rect(0, i * s, (i + 1) * s - 1, (i + 1) * s - 1) : i \in 0 .. n - 1 }

CombRoom(t, n) ==
  Rect(0, 0, 4 * n - 2, 1) \cup UNION { Rect(4 * i, 2, 4 * i + 1, 1 + t) : i \in 0 .. n - 1 }

BoundaryRooms ==
  { RectRoom(a, b) : a, b \in 0 .. MaxSide - 1 }
    \cup { StairRoom(s, n) : s \in 1 .. 5, n \in 2 .. 4 }
    \cup { CombRoom(t, n) : t \in 1 .. MaxSide - 1, n \in 2 .. 4 }

BoundaryInit ==
  /\ filler = None
  /\ WindowInit
  /\ call = None
  /\ fills = << >>
  /\ \E m \in BoundaryRooms : test_mask = [mask |-> m]

\* one call _extract_boundary_meters(room, filler), up to the simplified
\* contour
ExtractBoundary ==
  /\ call = None
  /\ call' = [fn |-> "_extract_boundary_meters",
              contour |-> mask_to_contour(test_mask.mask),
              epsilon |-> CONTOUR_EPSILON_PX,
              result |-> simplified_contour(test_mask.mask)]
  /\ UNCHANGED <<appVars, canvasVars, histVars, fills, test_mask>>

BoundaryNextStep == ExtractBoundary \/ Return

BoundarySpec == BoundaryInit /\ [][BoundaryNextStep]_vars

-----------------------------------------------------------------------------
(* Direct calls of pixel_to_svg and svg_to_pixel                           *)

\* FloodFiller.__init__ for a viewbox and a scale of floats
FloatFiller(viewbox, scale) ==
  [viewbox  |-> viewbox,
   scale    |-> scale,
   raster_w |-> int(fmul(viewbox[3], scale)),
   raster_h |-> int(fmul(viewbox[4], scale)),
   boundary_image |-> None]

\* viewport origins: (0, 0), (2.5, -3.5), (40, -100) and (1000, -3000)
CoordOrigins ==
  { << <<0, 0>>, <<0, 0>> >>, << <<5, -1>>, <<-7, -1>> >>,
    << <<5, 3>>, <<-25, 2>> >>, << <<125, 3>>, <<-187, 4>> >> }

\* viewport sizes with their scales: 6 x 4 at 1.0, 4 x 3 at 1.5, 5 x 4 at
\* 1.25, 9 x 6 at 43/64, 60 x 40 at 13/128, and 1 x 0.75 at 7.0
CoordSizes ==
  { << <<6, 0>>, <<4, 0>>, <<1, 0>> >>,
    << <<4, 0>>, <<3, 0>>, <<3, -1>> >>,
    << <<5, 0>>, <<4, 0>>, <<5, -2>> >>,
    << <<9, 0>>, <<6, 0>>, <<43, -6>> >>,
    << <<60, 0>>, <<40, 0>>, <<13, -7>> >>,
    << <<1, 0>>, <<3, -2>>, <<7, 0>> >> }

CoordFillers ==
  { FloatFiller(<<o[1], o[2], s[1], s[2]>>, s[3]) : o \in CoordOrigins, s \in CoordSizes }

CoordInit ==
  /\ filler \in CoordFillers
  /\ WindowInit
  /\ call = None
  /\ fills = << >>
  /\ test_mask = None

\* one round trip svg_to_pixel(*pixel_to_svg(px, py)) for a pixel of the raster
RoundTrip ==
  /\ call = None
  /\ \E p \in Grid(filler.raster_w, filler.raster_h) :
       LET svg == pixel_to_svg(filler, p[1], p[2])
       IN  call' = [fn |-> "round_trip", p |-> p, svg |-> svg,
                    result |-> svg_to_pixel(filler, svg[1], svg[2])]
  /\ UNCHANGED <<appVars, canvasVars, histVars, fills, test_mask>>

CoordNextStep == RoundTrip \/ Return

CoordSpec == CoordInit /\ [][CoordNextStep]_vars

-----------------------------------------------------------------------------
(* Direct calls of SvgParser.parse                                         *)

Node(tag, ns, class, id, d, children) ==
  [tag |-> tag, ns |-> ns, class |-> class, id |-> id, d |-> d, children |-> children]

SvgPath(d) == Node("path", SVG_NS, << >>, "", d, << >>)

SvgGroup(class, id, children) == Node("g", SVG_NS, class, id, << >>, children)

\* paths: absolute, relative with an implicit repeat, without d, with a d of
\* one close command, and a path outside the SVG namespace
PathAbs   == SvgPath(<<Cmd("M"), Num(0), Num(0), Cmd("L"), Num(4), Num(0), Num(4), Num(2)>>)
PathRel   == SvgPath(<<Cmd("m"), Num(1), Num(1), Num(2), Num(0), Cmd("l"), Num(0), Num(3), Cmd("z")>>)
PathEmpty == SvgPath(<< >>)
PathClose == SvgPath(<<Cmd("Z")>>)
PathBare  == Node("path", "", << >>, "", <<Cmd("M"), Num(5), Num(5), Num(6), Num(6)>>, << >>)

WallClass == <<"IfcWall", "cut", "material-brick">>
DoorClass == <<"projection", "IfcDoor", "IfcWall">>

\* the subtrees a document is put together from
DocItems ==
  { SvgGroup(WallClass, "wall", <<PathAbs>>),
    SvgGroup(DoorClass, "door", <<PathRel, PathEmpty>>),
    SvgGroup(<<"IfcWindow">>, "no-d", <<PathEmpty>>),
    SvgGroup(<<"IfcSlab">>, "close-only", <<PathClose>>),
    SvgGroup(<<"IfcColumn">>, "bare", <<PathBare>>),
    SvgGroup(<<"IfcSpace">>, "childless", << >>),
    SvgGroup(<<"IfcWall">>, "deep", <<SvgGroup(<<"section">>, "s1", <<PathClose, PathAbs>>)>>),
    SvgGroup(<<"IfcWall">>, "outer", <<SvgGroup(<<"IfcDoor">>, "inner", <<PathRel>>)>>),
    SvgGroup(<<"section">>, "s2", <<SvgGroup(<<"IfcWindow", "cut">>, "wrapped", <<PathAbs>>)>>),
    SvgGroup(<<"section">>, "s3",
             << SvgGroup(<< >>, "s4", << SvgGroup(<<"IfcDoor">>, "twice-wrapped", <<PathRel>>),
                                         SvgGroup(<<"IfcSlab">>, "wrapped-empty", <<PathEmpty>>) >>),
                SvgGroup(<<"IfcWallStandardCase">>, "after", <<PathAbs>>) >>),
    Node("a", SVG_NS, << >>, "link", << >>, <<SvgGroup(<<"IfcWall">>, "linked", <<PathAbs>>)>>),
    Node("g", "", <<"IfcColumn">>, "plain-g", << >>, <<PathRel>>),
    PathAbs }

\* the documents tried: a root with one item, or with two different items
DocTrees ==
  { Node("svg", SVG_NS, << >>, "root", << >>, <<a>>) : a \in DocItems }
    \cup { Node("svg", SVG_NS, << >>, "root", << >>, <<pair[1], pair[2]>>) :
             pair \in { q \in DocItems \X DocItems : q[1] # q[2] } }

ParseInit ==
  /\ filler = None
  /\ WindowInit
  /\ call = None
  /\ fills = << >>
  /\ \E t \in DocTrees : test_mask = [root |-> t]

\* one call SvgParser(svg_path).parse() on the document: self.elements starts
\* empty and is returned after _parse_group(root); the viewBox, width and
\* height that parse() reads from the root before are no part of the elements
Parse ==
  /\ call = None
  /\ call' = [fn |-> "parse", result |-> parse_group(<< >>, test_mask.root, 1)]
  /\ UNCHANGED <<appVars, canvasVars, histVars, fills, test_mask>>

ParseNextStep == Parse \/ Return

ParseSpec == ParseInit /\ [][ParseNextStep]_vars

-----------------------------------------------------------------------------
(* Direct calls of center_svg                                              *)

Seg(cmd, x, y, comma) == [cmd |-> cmd, x |-> x, y |-> y, comma |-> comma]

\* path data "M1,1 L5,3"
PathCommas == [kind |-> "path", segs |-> <<Seg("M", 1, 1, TRUE), Seg("L", 5, 3, TRUE)>>]

\* path data "M 1 1 L 5 3": no coordinate is found in it
PathSpaces == [kind |-> "path", segs |-> <<Seg("M", 1, 1, FALSE), Seg("L", 5, 3, FALSE)>>]

\* path data "m2,2 l4,0 M-1,7": relative and signed coordinates are not found
PathRelative ==
  [kind |-> "path", segs |-> <<Seg("m", 2, 2, TRUE), Seg("l", 4, 0, TRUE), Seg("M", -1, 7, TRUE)>>]

LineFull ==
  [kind |-> "line", x1 |-> <<Num(2)>>, x2 |-> <<Num(8)>>, y1 |-> <<Num(3)>>, y2 |-> <<Num(3)>>]

\* a line with x attributes only gives no bounding box
LineNoY == [kind |-> "line", x1 |-> <<Num(2)>>, x2 |-> <<Num(8)>>, y1 |-> << >>, y2 |-> << >>]

LinePercent ==
  [kind |-> "line", x1 |-> <<Word("10%")>>, x2 |-> <<Num(8)>>, y1 |-> <<Num(3)>>, y2 |-> <<Num(3)>>]

RectFull ==
  [kind |-> "rect", x |-> <<Num(1)>>, y |-> <<Num(2)>>, width |-> <<Num(3)>>, height |-> <<Num(4)>>]

RectNoX ==
  [kind |-> "rect", x |-> << >>, y |-> <<Num(2)>>, width |-> <<Num(3)>>, height |-> <<Num(4)>>]

CircleFull == [kind |-> "circle", cx |-> <<Num(5)>>, cy |-> <<Num(5)>>, r |-> <<Num(2)>>]

\* the primitives of the files tried: before and after "</defs>"
Drawings ==
  { [defs_end |-> FALSE, head |-> << >>, body |-> << >>],
    [defs_end |-> FALSE, head |-> << >>, body |-> <<PathCommas>>],
    [defs_end |-> FALSE, head |-> << >>, body |-> <<PathSpaces>>],
    [defs_end |-> FALSE, head |-> << >>, body |-> <<PathRelative, LineNoY>>],
    [defs_end |-> FALSE, head |-> <<RectFull>>, body |-> <<LineFull>>],
    [defs_end |-> TRUE,  head |-> <<PathCommas, CircleFull>>, body |-> << >>],
    [defs_end |-> TRUE,  head |-> <<PathCommas>>, body |-> <<RectNoX, CircleFull>>],
    [defs_end |-> FALSE, head |-> << >>, body |-> <<PathCommas, LinePercent>>] }

\* the viewBox attributes tried: none, "0 0 100 50", "0 0 0 0", "0 0 100", "auto"
ViewBoxes ==
  { [has_viewBox |-> FALSE, viewBox |-> << >>],
    [has_viewBox |-> TRUE,  viewBox |-> <<Num(0), Num(0), Num(100), Num(50)>>],
    [has_viewBox |-> TRUE,  viewBox |-> <<Num(0), Num(0), Num(0), Num(0)>>],
    [has_viewBox |-> TRUE,  viewBox |-> <<Num(0), Num(0), Num(100)>>],
    [has_viewBox |-> TRUE,  viewBox |-> <<Word("auto")>>] }

\* the width and height attributes tried: none, both in mm, the width only
Sizes ==
  { [width |-> << >>, height |-> << >>],
    [width |-> <<Num(297)>>, height |-> <<Num(210)>>],
    [width |-> <<Num(297)>>, height |-> << >>] }

SvgTexts ==
  { [has_viewBox |-> v.has_viewBox, viewBox |-> v.viewBox,
     width |-> s.width, height |-> s.height,
     defs_end |-> d.defs_end, head |-> d.head, body |-> d.body] :
      v \in ViewBoxes, s \in Sizes, d \in Drawings }

\* the names mkstemp(prefix="centered_") can give; it gives one of no file
TempNames == {"centered_1.svg", "centered_2.svg"}

\* the files before the call: the input, which may be a file written by an
\* earlier call
CenterInit ==
  /\ filler = None
  /\ WindowInit
  /\ call = None
  /\ fills = << >>
  /\ \E t \in SvgTexts, svg_path \in {"plan.svg", "centered_1.svg"} :
       test_mask = [svg_text |-> t, svg_path |-> svg_path, files |-> {svg_path}]

\* one call center_svg(svg_path)
CenterSvg ==
  /\ call = None
  /\ \E output_path \in TempNames \ test_mask.files :
       call' = [fn     |-> "center_svg",
                result |-> center_svg(test_mask.svg_text, test_mask.svg_path, output_path)]
  /\ UNCHANGED <<appVars, canvasVars, histVars, fills, test_mask>>

CenterNextStep == CenterSvg \/ Return

CenterSpec == CenterInit /\ [][CenterNextStep]_vars

-----------------------------------------------------------------------------
(* Direct calls of build_boundary_raster                                   *)

\* two fillers with a raster of 16 x 12 pixels: 16 x 12 units from (0, 0) at
\* one pixel per unit, and 11 x 8 units from (-3.5, 2.5) at 1.5 pixels per unit
BuildFillers ==
  { FloodFillerAt(<<0, 0, 32, 24>>, <<1, 1>>),
    FloodFillerAt(<<-7, 5, 22, 16>>, <<3, 2>>) }

\* a rendered image: white, with the given luminance in the given rectangles
Rendered(w, h, marks) ==
  Array([p \in Grid(w, h) |->
           IF \E m \in marks : InRect(p, m.rect)
           THEN MinOf({ m.lum : m \in { k \in marks : InRect(p, k.rect) } })
           ELSE 255])

\* the renderings tried: an empty sheet; a wall of 5 pixels with a gap of two
\* pixels; a wall of 5 pixels with a faint stretch (luminance 210) and a hair
\* line; a frame of one pixel around the sheet
Renderings ==
  { {},
    { [rect |-> <<6, 0, 10, 4>>, lum |-> 0], [rect |-> <<6, 7, 10, 11>>, lum |-> 0] },
    { [rect |-> <<6, 0, 10, 11>>, lum |-> 40], [rect |-> <<6, 5, 10, 6>>, lum |-> 210],
      [rect |-> <<13, 0, 13, 11>>, lum |-> 200] },
    { [rect |-> <<0, 0, 15, 0>>, lum |-> 0], [rect |-> <<0, 11, 15, 11>>, lum |-> 0],
      [rect |-> <<0, 0, 0, 11>>, lum |-> 0], [rect |-> <<15, 0, 15, 11>>, lum |-> 0] } }

\* walls (in halves of units): none; an open path across the sheet and a path
\* of one point; a closed triangle
WallLists ==
  { << >>,
    << IfcElement(<< << <<4, 10>>, <<26, 10>> >>, << <<3, 3>> >> >>, <<4, 10, 22, 0>>) >>,
    << IfcElement(<< << <<4, 4>>, <<20, 4>>, <<4, 18>>, <<4, 4>> >> >>, <<4, 4, 16, 14>>) >> }

\* doors and windows: a door in the gap of the wall, a door of no width, a
\* window reaching over the edge of the sheet
SealLists ==
  { << >>,
    << IfcElement(<< << <<12, 10>>, <<20, 12>> >> >>, <<12, 10, 8, 2>>) >>,
    << IfcElement(<< << <<16, 2>>, <<16, 20>> >> >>, <<16, 2, 0, 18>>) >>,
    << IfcElement(<< << <<24, 16>>, <<40, 30>> >> >>, <<24, 16, 16, 14>>) >> }

BuildInit ==
  /\ filler \in BuildFillers
  /\ WindowInit
  /\ NoCalls

\* one call build_boundary_raster(svg_path, walls, doors, windows); gray is
\* the rendering of the file
BuildRaster ==
  /\ call = None
  /\ filler.boundary_image = None
  /\ \E marks \in Renderings, walls \in WallLists, doors \in SealLists, windows \in SealLists :
       LET gray  == Rendered(filler.raster_w, filler.raster_h, marks)
           steps == build_boundary_raster(filler, gray, walls, doors, windows)
       IN  /\ call' = [fn |-> "build_boundary_raster",
                       walls |-> walls, doors |-> doors, windows |-> windows,
                       steps |-> steps]
           /\ filler' = [filler EXCEPT !.boundary_image =
                           BinaryImage(filler.raster_w, filler.raster_h, steps.binary)]
  /\ UNCHANGED <<windowVars, canvasVars, histVars, fills, test_mask>>

BuildNextStep == BuildRaster \/ Return

BuildSpec == BuildInit /\ [][BuildNextStep]_vars

-----------------------------------------------------------------------------
(* Properties of fill_at                                                   *)

\* The open region of a seed, stated without the fill: the least set of open
\* (nonzero) pixels that holds the seed and every open pixel sharing an edge
\* with one of its pixels.
RECURSIVE Closure(_, _)
Closure(open, S) ==
  LET more == { q \in open \ S :
                  \E d \in { <<1, 0>>, <<-1, 0>>, <<0, 1>>, <<0, -1>> } :
                    <<q[1] + d[1], q[2] + d[2]>> \in S }
  IN  IF more = {} THEN S ELSE Closure(open, S \cup more)

OpenPixels(img) == { p \in DOMAIN img : img[p] # 0 }

OpenRegion(img, seed) == Closure(OpenPixels(img), {seed})

FillCalled == call # None /\ call.fn = "fill_at"

SeedOutside(f, s) == s[1] < 0 \/ s[1] >= f.raster_w \/ s[2] < 0 \/ s[2] >= f.raster_h

\* the conditions under which the claim lets fill_at return None
NoRegion(f, s) ==
  \/ SeedOutside(f, s)
  \/ f.boundary_image[s] = 0
  \/ Cardinality(OpenRegion(f.boundary_image, s)) < 100
  \/ 2 * Cardinality(OpenRegion(f.boundary_image, s)) > f.raster_w * f.raster_h

\* C7: fill_at raises exactly when the raster is not built (whatever the seed);
\* on a built raster it returns None exactly when the seed is outside the
\* raster, or on a boundary pixel, or its region has fewer than 100 pixels or
\* more than half of the raster; otherwise it returns the mask.
C7_FillOutcomes ==
  FillCalled =>
    /\ call.result.kind \in { "RuntimeError", "None", "mask" }
    /\ (call.result.kind = "RuntimeError") <=> (filler.boundary_image = None)
    /\ filler.boundary_image # None =>
         ((call.result.kind = "None") <=> NoRegion(filler, call.seed))

\* a region of exactly 100 pixels that is exactly half of the raster is returned
C7_Witness ==
  /\ FillCalled
  /\ call.result.kind = "mask"
  /\ Cardinality(call.result.mask) = 100
  /\ 2 * Cardinality(call.result.mask) = filler.raster_w * filler.raster_h

\* C8: a returned mask is exactly the open region of the seed: it holds the
\* seed, no boundary pixel, and the open pixels joined to the seed through
\* edge-adjacent open pixels, and nothing else.
C8_MaskIsRegion ==
  (FillCalled /\ call.result.kind = "mask") =>
    /\ call.seed \in call.result.mask
    /\ \A p \in call.result.mask : filler.boundary_image[p] # 0
    /\ call.result.mask = OpenRegion(filler.boundary_image, call.seed)

\* a mask is returned on a raster that has a second open region
C8_Witness ==
  /\ FillCalled
  /\ call.result.kind = "mask"
  /\ OpenPixels(filler.boundary_image) \ call.result.mask # {}

\* C9: the masks of successful fills whose seeds lie in distinct open regions
\* are pairwise disjoint.
C9_FillsDisjoint ==
  \A i \in 1 .. Len(fills) :
    LET region == OpenRegion(filler.boundary_image, fills[i].seed)
    IN  \A j \in 1 .. Len(fills) :
          fills[j].seed \notin region => fills[i].mask \cap fills[j].mask = {}

\* two fills in distinct regions have succeeded
C9_Witness ==
  \E i, j \in 1 .. Len(fills) :
    /\ fills[j].seed \notin OpenRegion(filler.boundary_image, fills[i].seed)
    /\ fills[i].mask # {} /\ fills[j].mask # {}

-----------------------------------------------------------------------------
(* Properties of split_mask                                                *)

SplitCalled == call # None /\ call.fn = "split_mask"

CutLine == LinePixels(test_mask.w, test_mask.h, call.p1, call.p2)

\* the pieces of a mask: each pixel together with the pixels of the mask it
\* is joined to through neighbouring (edge or corner) pixels of the mask
RECURSIVE Joined(_, _)
Joined(m, S) ==
  LET more == { q \in m \ S : \E p \in S : p[1] - q[1] \in -1 .. 1 /\ p[2] - q[2] \in -1 .. 1 }
  IN  IF more = {} THEN S ELSE Joined(m, S \cup more)

Pieces(m) == { Joined(m, {p}) : p \in m }

\* C1: the halves of a successful split share no pixel, and together they are
\* the mask without the pixels of the cut line.
C1_SplitBipartition ==
  (SplitCalled /\ call.result.kind = "ok") =>
    /\ call.result.half_a \cap call.result.half_b = {}
    /\ call.result.half_a \cup call.result.half_b = test_mask.mask \ CutLine

\* a split that succeeded on a cut leaving fragments besides the two halves,
\* the line having removed pixels of the mask
C1_Witness ==
  /\ SplitCalled
  /\ call.result.kind = "ok"
  /\ Cardinality(Pieces(test_mask.mask \ CutLine)) >= 3
  /\ CutLine \cap test_mask.mask # {}

-----------------------------------------------------------------------------
(* Properties of the session                                                *)

RoomIds == { rooms[i].id : i \in 1 .. Len(rooms) }

NoDuplicates(seq) == \A i, j \in 1 .. Len(seq) : i # j => seq[i] # seq[j]

\* C3: in every reachable state of the session, every id in a unit's
\* room_ids is the id of a room in the room collection, and every room with
\* unit_id u is listed in the room_ids of the unit with id u.
C3_UnitsAndRoomsAgree ==
  /\ \A k \in 1 .. Len(units) : Range(units[k].room_ids) \subseteq RoomIds
  /\ \A i \in 1 .. Len(rooms) :
       rooms[i].unit_id # NoneId =>
         \E k \in 1 .. Len(units) :
           units[k].id = rooms[i].unit_id /\ rooms[i].id \in Range(units[k].room_ids)

\* a split has just been finalized in a unit that was saved with two rooms
C3_Witness ==
  /\ lastOp = "finalize_split"
  /\ \E k \in 1 .. Len(units) : Len(units[k].room_ids) >= 3
  /\ \E i \in 1 .. Len(rooms) : rooms[i].split_from # NoneId

\* C4: the step that finalizes a split of a room of unit u removes the parent
\* from the room collection and, in the same step, takes exactly the parent id
\* out of u's member list and appends exactly the two new ids; the other
\* member ids of u and every other unit stay as they were, so no state has the
\* unit listing a parent that the room collection lacks.
C4_SplitReplacesParent ==
  [][ (split_target_room # None /\ lastOp' = "finalize_split") =>
        LET parent == split_target_room
            lr_id  == room_counter
            dr_id  == room_counter + 1
        IN  /\ parent.id \in RoomIds
            /\ parent.id \notin { rooms'[i].id : i \in 1 .. Len(rooms') }
            /\ {lr_id, dr_id} \subseteq { rooms'[i].id : i \in 1 .. Len(rooms') }
            /\ Len(units') = Len(units)
            /\ \A k \in 1 .. Len(units) :
                 /\ units'[k].id = units[k].id
                 /\ IF units[k].id = parent.unit_id
                    THEN /\ parent.id \in Range(units[k].room_ids)
                         /\ {lr_id, dr_id} \cap Range(units[k].room_ids) = {}
                         /\ units'[k].room_ids =
                              SelectSeq(units[k].room_ids, LAMBDA rid : rid # parent.id)
                                \o <<lr_id, dr_id>>
                    ELSE units'[k] = units[k]
    ]_vars

\* a split finalized in a unit of two rooms, and one finalized while another
\* unit exists
C4_Witness ==
  /\ lastOp = "finalize_split"
  /\ \/ \E k \in 1 .. Len(units) : Len(units[k].room_ids) >= 3
     \/ Len(units) >= 2
  /\ \E i \in 1 .. Len(rooms) : rooms[i].split_from # NoneId

\* C5: between two resets no room id and no unit id is issued twice, whatever
\* rooms were deleted or split in between.
C5_IdsNeverReused ==
  /\ NoDuplicates(issued_room_ids)
  /\ NoDuplicates(issued_unit_ids)

\* a room is created after an earlier room was deleted
C5_Witness ==
  /\ lastOp = "room_created"
  /\ Range(issued_room_ids) \ RoomIds # {}
  /\ Len(issued_room_ids) >= 2

\* C6: right after a reset, whatever the state it was pressed in, the room
\* and unit collections are empty, the counters are 0 and 1, and the split
\* state kept by the main window (target room, contour, halves, endpoints) is
\* cleared.
C6_ResetClears ==
  lastOp \in {"reset", "open_svg"} =>
    /\ rooms = << >>
    /\ units = << >>
    /\ room_counter = 0
    /\ unit_counter = 1
    /\ split_target_room = None
    /\ split_contour = None
    /\ split_half_a = None
    /\ split_half_b = None
    /\ split_p1 = None
    /\ split_p2 = None

\* Reset was pressed with a split line drawn: the canvas still holds the line
C6_Witness ==
  /\ lastOp = "reset"
  /\ c_split_mode
  /\ c_split_state = "COMPLETE"

\* C10: in every reachable state of the session, two distinct rooms with the
\* same unit_id (two unassigned rooms included) have disjoint masks.
C10_SameUnitDisjoint ==
  \A i, j \in 1 .. Len(rooms) :
    (i # j /\ rooms[i].unit_id = rooms[j].unit_id) =>
      rooms[i].flood_mask \cap rooms[j].flood_mask = {}

\* the two rooms cut from a saved room sit in its unit
C10_Witness ==
  /\ lastOp = "finalize_split"
  /\ \E i, j \in 1 .. Len(rooms) :
       /\ i # j
       /\ rooms[i].unit_id = rooms[j].unit_id
       /\ rooms[i].split_from # NoneId
       /\ rooms[i].flood_mask # {} /\ rooms[j].flood_mask # {}

\* C11: a click on a pixel covered by the mask of any room, saved or not,
\* creates no room, so no two rooms of the collection ever overlap.
C11_NoRoomsOverlap ==
  \A i, j \in 1 .. Len(rooms) :
    i # j => rooms[i].flood_mask \cap rooms[j].flood_mask = {}

\* C12: fill_at leaves the boundary raster as build_boundary_raster made it,
\* whatever the seed and the outcome, so the same call made again on the
\* filler gives the same result.
C12_RasterUntouched ==
  /\ filler.boundary_image # None => filler \in BuiltRasters
  /\ FillCalled => fill_at(filler, call.seed[1], call.seed[2]) = call.result

\* a fill that flooded a region and then turned it down for its area
C12_Witness ==
  /\ FillCalled
  /\ filler.boundary_image # None
  /\ ~SeedOutside(filler, call.seed)
  /\ filler.boundary_image[call.seed] = 255
  /\ call.result.kind = "None"

-----------------------------------------------------------------------------
(* Properties of split_mask on square rooms                                 *)

\* the call cuts the square down its middle column
MiddleCut ==
  LET n == test_mask.w \div 4
  IN  SplitCalled /\ call.p1 = <<2 * n, n>> /\ call.p2 = <<2 * n, 3 * n>>

\* the call of the example: the 101 x 101 square, line (100, 50)-(100, 150)
ExampleCut ==
  /\ SplitCalled
  /\ test_mask = SquareMask(50)
  /\ call.p1 = <<100, 50>>
  /\ call.p2 = <<100, 150>>

\* C13, as the code has it: cutting the square on (n, n)..(3n, 3n) down its
\* middle column succeeds; the 3 pixel wide seam takes three columns of the
\* mask and leaves n - 1 columns on each side, so both halves have
\* (n - 1)(2n + 1) pixels and halves and seam add up to the mask.  For the
\* 101 x 101 square these are 49 * 101 = 4949 each, 303 for the seam, 10201
\* in all.
C13_SquareHalves ==
  MiddleCut =>
    LET n    == test_mask.w \div 4
        side == 2 * n + 1
        a    == Cardinality(call.result.half_a)
        b    == Cardinality(call.result.half_b)
        seam == Cardinality(CutLine \cap test_mask.mask)
    IN  /\ call.result.kind = "ok"
        /\ a = (n - 1) * side
        /\ b = (n - 1) * side
        /\ seam = 3 * side
        /\ a + b + seam = Cardinality(test_mask.mask)
        /\ n = 50 => (a = 4949 /\ b = 4949 /\ seam = 303 /\ a + b + seam = 10201)

\* the example has been run and has given two halves
C13_Witness ==
  /\ ExampleCut
  /\ call.result.kind = "ok"
  /\ call.result.half_a # {} /\ call.result.half_b # {}

\* C13 as claimed: the example gives halves of 50 * 101 and 51 * 101 pixels,
\* which with the pixels of the seam add up to 10201.
C13_HalvesAsClaimed ==
  ExampleCut =>
    LET a    == Cardinality(call.result.half_a)
        b    == Cardinality(call.result.half_b)
        seam == Cardinality(CutLine \cap test_mask.mask)
    IN  /\ call.result.kind = "ok"
        /\ {a, b} = {50 * 101, 51 * 101}
        /\ a + b + seam = 10201

-----------------------------------------------------------------------------
(* Properties of MaskGenerator                                              *)

GenCalled == call # None /\ call.fn \in {"generate_mask", "generate_combined_mask"}

Values(img) == { img.px[p] : p \in DOMAIN img.px }

\* C14: the raster returned by generate_mask and by generate_combined_mask is
\* 120 x 120 and each of its pixels is 0, 85, 170 or 255, for rooms with and
\* without a seam and any doors and windows.
C14_FourValues ==
  GenCalled =>
    /\ call.result.w = 120
    /\ call.result.h = 120
    /\ call.result.px \in [Grid(120, 120) -> {0, 85, 170, 255}]

\* a room with a seam whose raster shows all four values
C14_Witness ==
  /\ GenCalled
  /\ call.fn = "generate_mask"
  /\ call.room.split_line_px # None
  /\ Values(call.result) = {0, 85, 170, 255}

\* a call of generate_mask for a room that carries a seam
SeamRoomCalled ==
  /\ call # None
  /\ call.fn = "generate_mask"
  /\ call.room.split_line_px # None

\* the pixels of the crop on the 3-pixel seam line and in the boundary zone
SeamZone ==
  LET room == call.room
      box  == CropBox(filler.raster_w, filler.raster_h, room.flood_mask)
      p1   == <<room.split_line_px[1][1] - box.x_min, room.split_line_px[1][2] - box.y_min>>
      p2   == <<room.split_line_px[2][1] - box.x_min, room.split_line_px[2][2] - box.y_min>>
  IN  LinePixels(BoxW(box), BoxH(box), p1, p2)
        \cap BoundaryZone(BoxW(box), BoxH(box), Crop(room.flood_mask, box))

\* the projection fraction of the crop pixel q along the seam lies in
\* [0.175, 0.825] = [7/40, 33/40]
Central(q) ==
  LET room == call.room
      box  == CropBox(filler.raster_w, filler.raster_h, room.flood_mask)
      p1   == <<room.split_line_px[1][1] - box.x_min, room.split_line_px[1][2] - box.y_min>>
      p2   == <<room.split_line_px[2][1] - box.x_min, room.split_line_px[2][2] - box.y_min>>
      dx   == p2[1] - p1[1]
      dy   == p2[2] - p1[2]
      dot  == (q[1] - p1[1]) * dx + (q[2] - p1[2]) * dy
  IN  40 * dot >= 7 * (dx * dx + dy * dy) /\ 40 * dot <= 33 * (dx * dx + dy * dy)

\* C15: in the raster of a room with a seam, before padding and resampling,
\* each boundary-zone pixel on the seam line is door (170) when its projection
\* fraction lies in [0.175, 0.825] and void (0) otherwise.
C15_SeamDoorAndStubs ==
  SeamRoomCalled =>
    \A q \in SeamZone :
      call.raw.px[q] = (IF Central(q) THEN DOOR ELSE VOID)

\* C15, the half the code keeps: the central pixels of the seam are door
C15_CentralIsDoor ==
  SeamRoomCalled => \A q \in SeamZone : Central(q) => call.raw.px[q] = DOOR

\* C15 without doors and windows: then the end pixels of the seam are void
C15_StubsVoidWithoutElements ==
  (SeamRoomCalled /\ test_mask.doors = << >> /\ test_mask.windows = << >>) =>
    \A q \in SeamZone : ~Central(q) => call.raw.px[q] = VOID

-----------------------------------------------------------------------------
(* Properties of the boundary polygon                                       *)

BoundaryCalled == call # None /\ call.fn = "_extract_boundary_meters"

\* the vertex budgets a caller may ask for
Budgets == 3 .. 6

\* sub is seq with some of its entries left out
RECURSIVE Embeds(_, _)
Embeds(sub, seq) ==
  IF sub = << >> THEN TRUE
  ELSE IF seq = << >> THEN FALSE
  ELSE IF Head(sub) = Head(seq) THEN Embeds(Tail(sub), Tail(seq))
  ELSE Embeds(sub, Tail(seq))

\* the closed contour c taken from its index r (from 0) once around
Rotated(c, r) == [i \in 1 .. Len(c) |-> At(c, r + i - 1)]

-----------------------------------------------------------------------------
(* Properties of the coordinate round trip                                  *)

RoundTripCalled == call # None /\ call.fn = "round_trip"

\* the origin o, in pixels, and four times the pixel coordinate p together
\* stay within half the range of the mantissa:
\* 4 * p + |o| * scale <= 2^(MantissaBits - 1)
Moderate(p, o) ==
  LET os == <<Abs(Frac(o)[1]) * Frac(filler.scale)[1], Frac(o)[2] * Frac(filler.scale)[2]>>
  IN  4 * p * os[2] + os[1] <= 2^(MantissaBits - 1) * os[2]

\* C17 as claimed: for every pixel of the raster, every viewport origin and
\* every positive scale, svg_to_pixel(pixel_to_svg(p)) differs from p by at
\* most 1 in each coordinate.
C17_RoundTripWithinOne ==
  RoundTripCalled =>
    /\ Abs(call.result[1] - call.p[1]) <= 1
    /\ Abs(call.result[2] - call.p[2]) <= 1

\* C17 as amended: the round trip differs from p by at most 1 in each
\* coordinate whose viewport origin is moderate for the precision of the
\* floats.
C17_RoundTripModerate ==
  RoundTripCalled =>
    /\ Moderate(call.p[1], filler.viewbox[1]) => Abs(call.result[1] - call.p[1]) <= 1
    /\ Moderate(call.p[2], filler.viewbox[2]) => Abs(call.result[2] - call.p[2]) <= 1

\* a round trip from a moderate origin that comes back one pixel short
C17_Witness ==
  /\ RoundTripCalled
  /\ Moderate(call.p[1], filler.viewbox[1])
  /\ Moderate(call.p[2], filler.viewbox[2])
  /\ filler.viewbox[1] # <<0, 0>>
  /\ call.result[1] = call.p[1] - 1

-----------------------------------------------------------------------------
(* Properties of split rooms                                                *)

\* the rooms of rs whose id is not among the ids of the rooms of old
NewRooms(rs, old) ==
  SelectSeq(rs, LAMBDA r : r.id \notin { old[i].id : i \in 1 .. Len(old) })

\* C18, the finalized split: it leaves the other rooms as they were, takes
\* the parent out and adds exactly two rooms, with two distinct ids never
\* issued before, labelled livingroom and diningroom, both in the parent's
\* unit, split from the parent and carrying the drawn endpoints.
FinalizeMakesTwoRooms ==
  (split_target_room # None /\ lastOp' \in {"finalize_split", "finalize_split:StopIteration"}) =>
    LET parent == split_target_room
        made   == NewRooms(rooms', rooms)
    IN  /\ parent.id \in RoomIds
        /\ parent.id \notin { rooms'[i].id : i \in 1 .. Len(rooms') }
        /\ rooms' = SelectSeq(rooms, LAMBDA r : r.id # parent.id) \o made
        /\ Len(made) = 2
        /\ made[1].id # made[2].id
        /\ {made[1].id, made[2].id} \cap Range(issued_room_ids) = {}
        /\ {made[1].label, made[2].label} = {"livingroom", "diningroom"}
        /\ split_p1 # None /\ split_p2 # None
        /\ \A k \in 1 .. 2 :
             /\ made[k].unit_id = parent.unit_id
             /\ made[k].split_from = parent.id
             /\ made[k].split_line_px = <<split_p1, split_p2>>

\* C18, the flood-filled room: it is added with an empty label, no unit, no
\* split_from and no split_line_px.
FillMakesPlainRoom ==
  lastOp' = "room_created" =>
    /\ Len(rooms') = Len(rooms) + 1
    /\ SubSeq(rooms', 1, Len(rooms)) = rooms
    /\ LET room == rooms'[Len(rooms')]
       IN  /\ room.label = ""
           /\ room.unit_id = NoneId
           /\ room.split_from = NoneId
           /\ room.split_line_px = None

\* C18, in every state: a room has a split_from exactly when it has a
\* split_line_px.
SplitFromIffLine ==
  \A i \in 1 .. Len(rooms) :
    (rooms[i].split_from # NoneId) <=> (rooms[i].split_line_px # None)

\* C18: every finalized split creates exactly two rooms with two fresh distinct
\* ids, one livingroom and one diningroom, both with the parent's unit_id,
\* split_from the parent's id and the drawn endpoints as split_line_px, and
\* removes the parent; a flood-filled room has an empty label, no unit, no
\* split_from and no split_line_px; so split_from is set exactly when
\* split_line_px is set.
C18_SplitRooms ==
  /\ []SplitFromIffLine
  /\ [][FinalizeMakesTwoRooms /\ FillMakesPlainRoom]_vars

\* a split finalized beside a flood-filled room of the same unit
C18_Witness ==
  /\ lastOp = "finalize_split"
  /\ \E i, j, k \in 1 .. Len(rooms) :
       /\ rooms[i].split_from = NoneId
       /\ rooms[j].split_from # NoneId /\ rooms[j].label = "livingroom"
       /\ rooms[k].split_from = rooms[j].split_from /\ rooms[k].label = "diningroom"
       /\ rooms[i].unit_id = rooms[j].unit_id

-----------------------------------------------------------------------------
(* Properties of split attempts                                             *)

\* the steps of a split attempt short of its finalization
AttemptOps ==
  {"split_first_click", "split_line_drawn", "split_line_failed", "split_redo", "split_cancel"}

\* C19: the steps of a split attempt that is not finalized (a first click, a
\* line drawn, a line that fails to divide the room, a redo, a cancel) leave
\* the rooms with their masks, labels and units, the units and both counters as
\* they were; after a failed line the window is still in split mode for the
\* same target room, with no halves and no endpoints stored.
C19_AttemptLeavesRooms ==
  [][ /\ lastOp' \in AttemptOps =>
           /\ rooms' = rooms
           /\ units' = units
           /\ room_counter' = room_counter
           /\ unit_counter' = unit_counter
      /\ lastOp' = "split_line_failed" =>
           /\ split_target_room # None
           /\ split_target_room' = split_target_room
           /\ split_contour' = split_contour
           /\ split_toolbar_visible'
           /\ ~split_confirm_enabled'
           /\ c_split_mode'
           /\ c_split_state' = "IDLE"
           /\ c_split_room_id' = split_target_room.id
           /\ split_half_a' = None /\ split_half_b' = None
           /\ split_p1' = None /\ split_p2' = None
           /\ c_split_p1' = None /\ c_split_p2' = None
    ]_vars

\* a line that failed to divide its room, in a session with a saved unit
C19_Witness ==
  /\ lastOp = "split_line_failed"
  /\ split_target_room # None
  /\ split_target_room.id \in RoomIds
  /\ Len(units) >= 1
  /\ c_split_mode

-----------------------------------------------------------------------------
(* Properties of SvgParser.parse                                            *)

ParseCalled == call # None /\ call.fn = "parse"

\* the places of a document: the child indices that lead from the root to a
\* node, no deeper than the documents tried
MaxDepth == 4

RECURSIVE HasPlace(_, _)
HasPlace(node, pos) ==
  \/ pos = << >>
  \/ /\ Head(pos) \in 1 .. Len(node.children)
     /\ HasPlace(node.children[Head(pos)], Tail(pos))

RECURSIVE NodeAt(_, _)
NodeAt(node, pos) ==
  IF pos = << >> THEN node ELSE NodeAt(node.children[Head(pos)], Tail(pos))

Places(root) ==
  { pos \in UNION { [1 .. n -> 1 .. 2] : n \in 1 .. MaxDepth } : HasPlace(root, pos) }

Recognized(node) ==
  node.tag = "g" /\ \E k \in 1 .. Len(node.class) : node.class[k] \in IFC_TYPES_OF_INTEREST

\* the node at pos is a recognized group, and the nodes between the root and
\* it are groups without a recognized type
Reachable(root, pos) ==
  /\ Recognized(NodeAt(root, pos))
  /\ \A n \in 1 .. Len(pos) - 1 :
       LET above == NodeAt(root, SubSeq(pos, 1, n))
       IN  above.tag = "g" /\ ~Recognized(above)

\* the group at pos resolves a coordinate: an SVG path in it has path data
\* with a number pair
Resolves(root, pos) ==
  \E below \in Places(NodeAt(root, pos)) :
    LET n == NodeAt(NodeAt(root, pos), below)
    IN  /\ n.tag = "path" /\ n.ns = SVG_NS
        /\ \E k \in 1 .. Len(n.d) : n.d[k].c = ""

\* pos comes before other in document order
RECURSIVE Before(_, _)
Before(pos, other) ==
  /\ other # << >>
  /\ \/ pos = << >>
     \/ Head(pos) < Head(other)
     \/ (Head(pos) = Head(other) /\ Before(Tail(pos), Tail(other)))

\* C20: the parsed elements are, in document order, one for each group with a
\* recognized type class that is reached from the root through groups without
\* a recognized type and resolves at least one coordinate; a recognized group
\* that resolves no coordinate gives no element.
C20_ElementsAreReachableGroups ==
  ParseCalled =>
    LET root  == test_mask.root
        found == { pos \in Places(root) : Reachable(root, pos) /\ Resolves(root, pos) }
        elems == call.result
    IN  /\ Len(elems) = Cardinality(found)
        /\ \A pos \in found :
             Cardinality({ i \in 1 .. Len(elems) : elems[i].uuid = NodeAt(root, pos).id }) = 1
        /\ \A pos, other \in found :
             Before(pos, other) =>
               \E i, j \in 1 .. Len(elems) :
                 /\ i < j
                 /\ elems[i].uuid = NodeAt(root, pos).id
                 /\ elems[j].uuid = NodeAt(root, other).id
        /\ \A pos \in Places(root) :
             (Recognized(NodeAt(root, pos)) /\ ~Resolves(root, pos)) =>
               \A i \in 1 .. Len(elems) : elems[i].uuid # NodeAt(root, pos).id

\* a document with a recognized group behind two wrappers, a recognized group
\* without coordinates beside it and a second element after them
C20_Witness ==
  /\ ParseCalled
  /\ Len(call.result) >= 3
  /\ \E i, j \in 1 .. Len(call.result) :
       i < j /\ call.result[i].uuid = "twice-wrapped" /\ call.result[j].uuid = "after"

-----------------------------------------------------------------------------
(* Properties of center_svg                                                 *)

CenterCalled == call # None /\ call.fn = "center_svg"

\* the text has a viewport: a viewBox attribute of four numbers
HasViewport(svg_text) ==
  svg_text.has_viewBox /\ ViewBoxError(svg_text.viewBox) = ""

\* C21: without a viewBox the call fails; with a viewport and no geometry
\* located it returns the input path and writes nothing; with a viewport and
\* geometry located it returns the path of a new file, never the input path.
C21_ThreeOutcomes ==
  CenterCalled =>
    LET t     == test_mask.svg_text
        r     == call.result
        found == extract_content_bbox(t)
    IN  /\ ~t.has_viewBox => r.raised # ""
        /\ (HasViewport(t) /\ found.raised = "" /\ found.bbox = None) =>
             r.raised = "" /\ r.returned = test_mask.svg_path /\ r.written = {}
        /\ (HasViewport(t) /\ found.raised = "" /\ found.bbox # None) =>
             /\ r.raised = ""
             /\ r.returned # test_mask.svg_path
             /\ r.returned \notin test_mask.files
             /\ \E w \in r.written : w[1] = r.returned

-----------------------------------------------------------------------------
(* Properties of build_boundary_raster                                      *)

BuildCalled == call # None /\ call.fn = "build_boundary_raster"

\* the raster pixels inside the pixel bounding boxes of the doors and windows
OpeningPixels == SealedPixels(filler, call.doors \o call.windows)

\* C22 as stated: after step 3 every pixel in the box of a door or window is
\* open (nonzero).
C22_OpeningsOpen ==
  BuildCalled => \A p \in OpeningPixels : p \notin call.steps.step3

\* C22: after step 3 every raster pixel inside the pixel bounding box of every
\* door and window element is boundary (zero): the opening is sealed.
C22_OpeningsSealed ==
  BuildCalled => \A p \in OpeningPixels : p \in call.steps.step3

\* a door or window whose box held open pixels after step 2
C22_Witness ==
  /\ BuildCalled
  /\ \E p \in OpeningPixels : p \notin call.steps.step2

\* C23: steps 2 and 3 only add boundary: a pixel that is boundary after the
\* thresholding of step 1 is boundary after step 2 and after step 3, whatever
\* the walls, doors and windows; only step 4 takes boundary away.
C23_StepsOnlyAddBoundary ==
  BuildCalled =>
    /\ call.steps.step1 \subseteq call.steps.step2
    /\ call.steps.step2 \subseteq call.steps.step3

\* a call in which step 2 and step 3 both painted over a rendering with
\* boundary pixels, and step 4 turned a rendered boundary pixel open
C23_Witness ==
  /\ BuildCalled
  /\ call.walls # << >>
  /\ call.doors \o call.windows # << >>
  /\ call.steps.step1 # {}
  /\ call.steps.step2 # call.steps.step1
  /\ call.steps.step3 # call.steps.step2
  /\ \E p \in call.steps.step1 : p \notin call.steps.binary

\* the pixel p is open after step 3 and lies in a gap of fewer than 5 pixels
\* between boundary pixels of its row or of its column
InNarrowGap(p) ==
  /\ p \notin call.steps.step3
  /\ \/ \E a \in 1 .. 4, b \in 1 .. 4 :
          /\ a + b - 1 < 5
          /\ <<p[1] - a, p[2]>> \in call.steps.step3
          /\ <<p[1] + b, p[2]>> \in call.steps.step3
     \/ \E a \in 1 .. 4, b \in 1 .. 4 :
          /\ a + b - 1 < 5
          /\ <<p[1], p[2] - a>> \in call.steps.step3
          /\ <<p[1], p[2] + b>> \in call.steps.step3

\* the pixels the wall paths of the call are drawn on in step 2
WallLinePixels == DrawWalls(filler, {}, call.walls)

\* the pixels a flood fill from seed reaches on the final raster
Filled(seed) ==
  Grow(filler.boundary_image, filler.raster_w, filler.raster_h, 255, {seed}, {seed})

\* C24: step 4 bridges the gaps of the boundary: an open pixel in a gap
\* narrower than the 5x5 element between boundary pixels is boundary in the
\* final raster, so that no fill passes through it, and the wall lines of
\* step 2 are still boundary in the final raster.
C24_GapsBridged ==
  BuildCalled =>
    /\ \A p \in Grid(filler.raster_w, filler.raster_h) :
         InNarrowGap(p) =>
           /\ p \in call.steps.binary
           /\ filler.boundary_image[p] = 0
    /\ \A seed \in Grid(filler.raster_w, filler.raster_h) :
         filler.boundary_image[seed] = 255 =>
           \A p \in Filled(seed) : ~InNarrowGap(p)
    /\ WallLinePixels \subseteq call.steps.binary

-----------------------------------------------------------------------------
(* Properties of the merge of fragments in split_mask                      *)

SplitDone == call # None /\ call.fn = "split_mask" /\ call.result.kind = "ok"

\* the connected components of the cut mask of the call, in label order
CutComponents ==
  connectedComponents(test_mask.mask \ LinePixels(test_mask.w, test_mask.h, call.p1, call.p2))

\* the order the components are taken in
CutOrder == SortedLabels(CutComponents, 1 .. Len(CutComponents))

\* the part of a returned half that was there when component number i of the
\* order was looked at: the main component and the fragments before i
ExtentBefore(half, main, i) ==
  CutComponents[CutOrder[main]]
    \cup UNION { CutComponents[CutOrder[j]] :
                   j \in { k \in 3 .. i - 1 : CutComponents[CutOrder[k]] \subseteq half } }

OverlapBefore(half, main, i) ==
  Cardinality(CutComponents[CutOrder[i]]
                \cap dilate5(test_mask.w, test_mask.h, ExtentBefore(half, main, i)))

\* C25: half A holds the largest and half B the second-largest component of
\* the cut mask; the further components are taken in descending size and each
\* is wholly in the half whose 5x5-dilated extent at that moment overlaps it
\* in more pixels, and in half A on equal overlap.
C25_FragmentsMerged ==
  SplitDone =>
    LET comps == CutComponents
        order == CutOrder
        a     == call.result.half_a
        b     == call.result.half_b
    IN  /\ \A i \in 1 .. Len(order) - 1 :
             Cardinality(comps[order[i]]) >= Cardinality(comps[order[i + 1]])
        /\ comps[order[1]] \subseteq a
        /\ comps[order[2]] \subseteq b
        /\ a \cap b = {}
        /\ \A i \in 3 .. Len(order) :
             IF OverlapBefore(a, 1, i) >= OverlapBefore(b, 2, i)
             THEN comps[order[i]] \subseteq a
             ELSE comps[order[i]] \subseteq b

\* a split with a fragment merged on greater overlap with half B and one
\* merged into half A on equal overlap with both halves
C25_Witness ==
  /\ SplitDone
  /\ \E i \in 3 .. Len(CutOrder) :
       OverlapBefore(call.result.half_a, 1, i) < OverlapBefore(call.result.half_b, 2, i)
  /\ \E i \in 3 .. Len(CutOrder) :
       /\ OverlapBefore(call.result.half_a, 1, i) = OverlapBefore(call.result.half_b, 2, i)
       /\ OverlapBefore(call.result.half_a, 1, i) > 0

-----------------------------------------------------------------------------
(* Properties of the split end points                                       *)

\* v is the vertex of the contour nearest to the point p by squared distance,
\* and the first such vertex in the order of the contour
FirstNearest(v, p, contour) ==
  \E i \in 1 .. Len(contour) :
    /\ contour[i] = v
    /\ \A j \in 1 .. Len(contour) : SqDist(contour[j], p) >= SqDist(contour[i], p)
    /\ \A j \in 1 .. i - 1 : SqDist(contour[j], p) > SqDist(contour[i], p)

\* the clicks that reach the split branch of mousePressEvent
RasterClicks ==
  { p \in ClickPoints : InBounds(p, filler.raster_w, filler.raster_h) }

\* the end points the canvas holds are vertices of the contour it was given
\* for the room to split, and the end points handed to the window by
\* split_line_complete are those of the canvas
EndPointsOnContour ==
  /\ c_split_p1 # None => \E i \in 1 .. Len(c_split_contour) : c_split_contour[i] = c_split_p1
  /\ c_split_p2 # None => \E i \in 1 .. Len(c_split_contour) : c_split_contour[i] = c_split_p2
  /\ split_p1 # None => (split_p1 = c_split_p1 /\ split_p2 = c_split_p2 /\ c_split_p2 # None)

\* a click that records an end point records the first nearest vertex to the
\* clicked pixel
EndPointSnapped ==
  /\ (c_split_p1' # None /\ c_split_p1' # c_split_p1) =>
       \E p \in RasterClicks : FirstNearest(c_split_p1', p, c_split_contour)
  /\ (c_split_p2' # None /\ c_split_p2' # c_split_p2) =>
       \E p \in RasterClicks : FirstNearest(c_split_p2', p, c_split_contour)

\* C26: every split end point the canvas records and emits is a vertex of the
\* contour of the room to split, the vertex nearest to the clicked pixel by
\* squared distance and the first one in contour order among the nearest.
C26_EndPointsSnapped == []EndPointsOnContour /\ [][EndPointSnapped]_vars

\* a line completed from a click that has two nearest vertices, one of them
\* the recorded first end point, and a second end point away from the click
C26_Witness ==
  /\ c_split_state = "COMPLETE"
  /\ split_p1 # None
  /\ \E p \in ClickPoints, i, j \in 1 .. Len(c_split_contour) :
       /\ i < j
       /\ c_split_contour[i] = c_split_p1
       /\ c_split_contour[j] # c_split_p1
       /\ SqDist(c_split_contour[i], p) = SqDist(c_split_contour[j], p)
       /\ \A k \in 1 .. Len(c_split_contour) :
            SqDist(c_split_contour[k], p) >= SqDist(c_split_contour[i], p)

-----------------------------------------------------------------------------
(* Properties of split mode                                                 *)

\* C27: in every reachable state the canvas is in split mode only if the
\* window holds a split target room, and so no split_line_complete reaches
\* _on_split_line_drawn without a target room: the handler does not fault.
C27_SplitModeHasTarget ==
  /\ c_split_mode => split_target_room # None
  /\ lastOp # "split_line_drawn:AttributeError"

\* the outcomes of a click that made the canvas emit split_line_complete
LineEmitted == {"split_line_drawn", "split_line_failed", "split_line_drawn:AttributeError"}

\* the handlers that take the canvas out of a completed line: the toolbar's
\* redo, cancel and confirm
LineEnded == {"split_redo", "split_cancel", "finalize_split", "finalize_split:StopIteration"}

\* a click in split mode
SplitClicked == lastOp' \in LineEmitted \cup {"split_first_click"}

\* C28: in split mode the first click on the raster only stores the first end
\* point (IDLE to FIRST_CLICK, nothing emitted); split_line_complete is emitted
\* by the second click alone, from FIRST_CLICK with both end points set, and
\* the canvas is COMPLETE afterwards unless the handler found no cut and
\* started over through _on_split_redo; a completed line is left only by redo,
\* cancel or confirm, and until then no step changes the end points or emits
\* again; and a room is created by flood fill only outside split mode.
C28_SplitClickCycle ==
  [][ /\ lastOp' = "split_first_click" =>
           /\ c_split_mode /\ c_split_state = "IDLE"
           /\ c_split_state' = "FIRST_CLICK"
           /\ c_split_p1' # None /\ c_split_p2' = None
      /\ lastOp' \in LineEmitted =>
           /\ c_split_mode /\ c_split_state = "FIRST_CLICK"
           /\ c_split_p1 # None
           /\ IF lastOp' = "split_line_failed"
              THEN c_split_state' = "IDLE" /\ c_split_p1' = None /\ c_split_p2' = None
              ELSE /\ c_split_state' = "COMPLETE"
                   /\ c_split_p1' = c_split_p1 /\ c_split_p2' # None
                   /\ split_p1' = c_split_p1' /\ split_p2' = c_split_p2'
      /\ (c_split_state # c_split_state' /\ c_split_state' # "IDLE") =>
           /\ SplitClicked
           /\ c_split_state = "IDLE" <=> c_split_state' = "FIRST_CLICK"
      /\ c_split_state = "COMPLETE" =>
           /\ lastOp' \notin LineEmitted \cup {"split_first_click", "room_created"}
           /\ \/ c_split_state' = "COMPLETE" /\ c_split_p1' = c_split_p1
                                             /\ c_split_p2' = c_split_p2
              \/ c_split_state' = "IDLE" /\ lastOp' \in LineEnded
      /\ lastOp' = "room_created" => ~c_split_mode
    ]_vars

\* C28, its case reached: the second click of a cycle has completed the line
\* and it was cut
C28_Witness ==
  /\ lastOp = "split_line_drawn"
  /\ c_split_mode /\ c_split_state = "COMPLETE"
  /\ c_split_p1 # None /\ c_split_p2 # None

-----------------------------------------------------------------------------
(* Properties of Export All                                                 *)

\* Export All was pressed with a unit saved and a directory chosen
Exported == lastOp \in {"export_all", "export_all:TypeError"}

\* C29: after Export All with at least one unit saved and an output directory
\* chosen, export_all accepted its arguments and ran to completion, and its
\* metadata has one entry per saved unit, in order, whose rooms are exactly
\* the rooms with that unit's id.
C29_ExportCompletes ==
  Exported =>
    /\ call.result.raised = ""
    /\ Len(call.result.units) = Len(units)
    /\ \A i \in 1 .. Len(call.result.units) :
         /\ call.result.units[i].unit_id = units[i].id
         /\ { call.result.units[i].rooms[k] : k \in DOMAIN call.result.units[i].rooms }
              = { rooms[k].id : k \in { n \in DOMAIN rooms : rooms[n].unit_id = units[i].id } }

-----------------------------------------------------------------------------
(* Properties of Save Unit                                                  *)

\* Save Unit created a unit
SaveOps == {"save", "save_begin_split"}

\* the rooms that carry no unit yet
Unassigned == SelectSeq(rooms, LAMBDA r : r.unit_id = NoneId)

\* every unit lists at least one room, and one of the rooms it lists is in
\* the session under the unit's id with the label 'diningroom'
UnitsHaveDiningroom ==
  \A i \in 1 .. Len(units) :
    /\ units[i].room_ids # << >>
    /\ \E k \in 1 .. Len(rooms) :
         /\ rooms[k].unit_id = units[i].id
         /\ \E n \in 1 .. Len(units[i].room_ids) : units[i].room_ids[n] = rooms[k].id
         /\ rooms[k].label = "diningroom"

\* a unit is added only by Save Unit, pressed with at least one unassigned
\* room of which one is a diningroom; it is one unit, made of exactly the
\* unassigned rooms, and it moves the unit counter by one and leaves the room
\* counter; the unit counter moves on no other step but a reset
SaveUnitGuarded ==
  /\ (Len(units') > Len(units) \/ lastOp' \in SaveOps) =>
       /\ lastOp' \in SaveOps
       /\ Unassigned # << >>
       /\ \E k \in 1 .. Len(Unassigned) : Unassigned[k].label = "diningroom"
       /\ units' = Append(units, ApartmentUnit(unit_counter, Ids(Unassigned)))
       /\ unit_counter' = unit_counter + 1
       /\ room_counter' = room_counter
       /\ Len(rooms') = Len(rooms)
  /\ unit_counter' # unit_counter => lastOp' \in SaveOps \cup {"reset", "open_svg"}

\* C30: Save Unit creates a unit only from at least one unassigned room of
\* which one is labelled 'diningroom', and changes nothing otherwise; and in
\* every reachable state, also after deletions, label changes and finalized
\* splits, every unit is non-empty and contains a room labelled 'diningroom'.
C30_UnitsHaveDiningroom == []UnitsHaveDiningroom /\ [][SaveUnitGuarded]_vars

\* C30, its case reached: a unit was saved, its diningroom was split and the
\* split finalized; the unit holds the two rooms made by the split
C30_Witness ==
  /\ Len(units) = 1
  /\ Len(units[1].room_ids) = 2
  /\ \E k \in 1 .. Len(rooms) : rooms[k].unit_id = units[1].id /\ rooms[k].split_from # NoneId
  /\ lastOp = "finalize_split"

====
